---- MODULE Spec2Model ----
(***************************************************************************)
(* EC2 instance controls: the command handlers (src/src/handlers.py), the  *)
(* provider client (src/src/aws_client.py) and the schedule helpers        *)
(* (src/src/schedule.py, src/src/disable_schedule.py) as a state machine   *)
(* over the provider's instance store.                                     *)
(*                                                                         *)
(* Python strings are tuples of one-character strings, so that split,      *)
(* strip, lower, join and startswith are computed and not assumed.         *)
(* Python's None is the tuple None for a string and "None" for a           *)
(* lifecycle state.                                                        *)
(***************************************************************************)
EXTENDS Integers, Sequences, FiniteSets, TLC

VARIABLES
    state,  \* provider: instance id -> lifecycle state, "absent" if no such instance
    tags,   \* provider: instance id -> tag key -> value, None if the tag is not set
    now,    \* the wall clock, in minutes
    ops,    \* how many operations have run (bounds a behaviour)
    last,   \* what the last operation was given, returned and asked of the provider
    inflight \* what is under way: in SpecRace the commands that run concurrently, each at
             \* its position; in SpecE2E the instances whose start the provider has accepted
             \* and its reads do not show yet
             \* ; in SpecClock the disable period that was set last and not cancelled
             \* ; in SpecPowerRace the locals of the power command between its two steps

vars == <<state, tags, now, ops, last, inflight>>

(***************************************************************************)
(* Bounds of the model.                                                    *)
(***************************************************************************)
\* at most this many provider calls of one operation fail
MaxFaults == 1
\* the operations of one behaviour of the stakeholder specifications
\* the last minute of the clock of SpecClock
MaxNow == 121
\* the largest number of hours written out for parse_hours
MaxHours == 120
MaxOps == 3

(***************************************************************************)
(* Strings.                                                                *)
(***************************************************************************)
None == <<"None">>

Upper == <<"A", "B", "C", "D", "E", "F", "G", "H", "I", "J", "K", "L", "M", "N", "O", "P", "Q", "R", "S", "T", "U", "V", "W", "X", "Y", "Z">>
LowerOf == <<"a", "b", "c", "d", "e", "f", "g", "h", "i", "j", "k", "l", "m", "n", "o", "p", "q", "r", "s", "t", "u", "v", "w", "x", "y", "z">>

\* str.lower() on one character
LowerChar(c) ==
    IF \E k \in 1..Len(Upper) : Upper[k] = c
    THEN LowerOf[CHOOSE k \in 1..Len(Upper) : Upper[k] = c]
    ELSE c

\* str.lower()
lower(s) == [k \in 1..Len(s) |-> LowerChar(s[k])]

\* str.startswith(p)
startswith(s, p) == Len(s) >= Len(p) /\ SubSeq(s, 1, Len(p)) = p

\* str.endswith(p)
endswith(s, p) == Len(s) >= Len(p) /\ SubSeq(s, Len(s) - Len(p) + 1, Len(s)) = p

IsSpace(c) == c = " "

RECURSIVE lstrip(_)
lstrip(s) == IF s # <<>> /\ IsSpace(Head(s)) THEN lstrip(Tail(s)) ELSE s

RECURSIVE rstrip(_)
rstrip(s) == IF s # <<>> /\ IsSpace(s[Len(s)]) THEN rstrip(SubSeq(s, 1, Len(s) - 1)) ELSE s

\* str.strip()
strip(s) == rstrip(lstrip(s))

\* str.split(','): the pieces between the commas, empty pieces kept
RECURSIVE split(_, _)
split(s, sep) ==
    IF \A k \in 1..Len(s) : s[k] # sep
    THEN <<s>>
    ELSE LET k == CHOOSE i \in 1..Len(s) : s[i] = sep /\ \A j \in 1..(i - 1) : s[j] # sep
         IN  <<SubSeq(s, 1, k - 1)>> \o split(SubSeq(s, k + 1, Len(s)), sep)

\* sep.join(list)
RECURSIVE join(_, _)
join(list, sep) ==
    IF list = <<>> THEN <<>>
    ELSE IF Len(list) = 1 THEN list[1]
    ELSE list[1] \o <<sep>> \o join(Tail(list), sep)

\* x in list
In(x, list) == \E k \in 1..Len(list) : list[k] = x

HexDigits == {"0", "1", "2", "3", "4", "5", "6", "7", "8", "9", "a", "b", "c", "d", "e", "f"}

\* handlers.py: ^i-[0-9a-f]{8}$|^i-[0-9a-f]{17}$
is_valid_instance_id(instance_id) ==
    /\ Len(instance_id) \in {10, 19}
    /\ instance_id[1] = "i"
    /\ instance_id[2] = "-"
    /\ \A k \in 3..Len(instance_id) : instance_id[k] \in HexDigits

(***************************************************************************)
(* The provider's store and the instances of the model.                    *)
(***************************************************************************)
ID1 == <<"i", "-", "0", "0", "0", "0", "0", "0", "0", "1">>
ID2 == <<"i", "-", "0", "0", "0", "0", "0", "0", "0", "2">>
ID3 == <<"i", "-", "0", "0", "0", "0", "0", "0", "0", "3">>
\* a well-formed ID of the long shape that names no instance
IDGone == <<"i", "-", "0", "0", "0", "0", "0", "0", "0", "0", "0", "0", "0", "0", "0", "0", "0", "0", "f">>

Ids == {ID1, ID2, ID3}

Lifecycle == {"pending", "running", "stopping", "stopped"}
AllLifecycle == Lifecycle \cup {"shutting-down", "terminated"}

TagKeys == {"Name", "EC2ControlsEnabled", "PowerScheduleOnTime", "PowerScheduleOffTime",
            "PowerScheduleDisabledUntil", "Stakeholders"}

NoTags == [k \in TagKeys |-> None]

MutatingOps == {"start_instances", "stop_instances", "reboot_instances", "create_tags", "delete_tags"}

(***************************************************************************)
(* One operation runs against a world w: the store, the provider calls     *)
(* made so far (calls), and F, the positions of the provider calls that    *)
(* raise. Every function returns the world it leaves and its return value. *)
(***************************************************************************)
World(F) == [state |-> state, tags |-> tags, now |-> now, calls |-> <<>>, n |-> 0, F |-> F,
             raising |-> FALSE]

Ret(w, v) == [w |-> w, ret |-> v]

\* the value of e, computed once, handed to what follows
Bind(e, F(_)) == CHOOSE r \in {F(v) : v \in {e}} : TRUE

\* the next provider call raises
Raises(w) == (w.n + 1) \in w.F

\* a provider call: what was asked, whether it returned, the lifecycle state it reported;
\* a call that does not return raises (botocore's ClientError), and the exception is in
\* flight (raising) until a try statement around the call catches it
Call(w, op, arg, ok, val) ==
    [w EXCEPT !.calls = Append(@, [op |-> op, arg |-> arg, ok |-> ok, val |-> val]), !.n = @ + 1,
              !.raising = @ \/ ~ok]

\* try: ... except Exception: of a function entered in world w and leaving with r; what
\* was raised inside is caught, what was in flight before stays in flight
Try(w, r) == [r EXCEPT !.w.raising = w.raising]

\* a note in the call record that is not a provider call (a gate result)
Note(w, op, arg, ok) ==
    [w EXCEPT !.calls = Append(@, [op |-> op, arg |-> arg, ok |-> ok, val |-> "-"])]

Exists(w, id) == id \in DOMAIN w.state /\ w.state[id] # "absent"

NoInstance == [found |-> FALSE, InstanceId |-> None, State |-> "None", Tags |-> NoTags]

InstanceOf(w, id) ==
    [found |-> TRUE, InstanceId |-> id, State |-> w.state[id], Tags |-> w.tags[id]]

\* describe_instances(InstanceIds=[id]): the instance, or nothing when the call
\* raises or the provider knows no such instance
describe_instances(w, id) ==
    LET ok == ~Raises(w) /\ Exists(w, id)
    IN  Ret(Call(w, "describe_instances", id, ok, IF ok THEN w.state[id] ELSE "None"), IF ok THEN InstanceOf(w, id) ELSE NoInstance)

\* describe_instances(Filters=[tag:Name = name, instance-state-name in the four states])
describe_instances_by_name(w, name) ==
    LET ok == ~Raises(w)
        found == {id \in DOMAIN w.state :
                     /\ w.state[id] \in Lifecycle
                     /\ w.tags[id]["Name"] = name}
    IN  [w |-> Call(w, "describe_instances_by_name", name, ok, "-"), ok |-> ok,
         ret |-> IF ok THEN {InstanceOf(w, id) : id \in found} ELSE {}]

\* start_instances: a stopped instance becomes pending
start_instances(w, id) ==
    LET ok == ~Raises(w) /\ Exists(w, id) /\ w.state[id] \in {"stopped", "pending", "running"}
        w1 == Call(w, "start_instances", id, ok, "-")
    IN  Ret(IF ok /\ w.state[id] = "stopped" THEN [w1 EXCEPT !.state[id] = "pending"] ELSE w1, ok)

\* stop_instances: a running or pending instance becomes stopping
stop_instances(w, id) ==
    LET ok == ~Raises(w) /\ Exists(w, id) /\ w.state[id] \in Lifecycle
        w1 == Call(w, "stop_instances", id, ok, "-")
    IN  Ret(IF ok /\ w.state[id] \in {"running", "pending"}
            THEN [w1 EXCEPT !.state[id] = "stopping"] ELSE w1, ok)

\* reboot_instances: a running instance stays running
reboot_instances(w, id) ==
    LET ok == ~Raises(w) /\ Exists(w, id) /\ w.state[id] = "running"
    IN  Ret(Call(w, "reboot_instances", id, ok, "-"), ok)

\* create_tags(Resources=[id], Tags=kv): sets the given keys, keeps the others
create_tags(w, id, kv) ==
    LET ok == ~Raises(w) /\ Exists(w, id)
        w1 == Call(w, "create_tags", id, ok, "-")
    IN  Ret(IF ok THEN [w1 EXCEPT !.tags[id] = [k \in TagKeys |-> IF k \in DOMAIN kv THEN kv[k] ELSE @[k]]]
            ELSE w1, ok)

\* delete_tags(Resources=[id], Tags=keys): removes the given keys; removing a key
\* that is not set is not an error
delete_tags(w, id, keys) ==
    LET ok == ~Raises(w) /\ Exists(w, id)
        w1 == Call(w, "delete_tags", id, ok, "-")
    IN  Ret(IF ok THEN [w1 EXCEPT !.tags[id] = [k \in TagKeys |-> IF k \in keys THEN None ELSE @[k]]]
            ELSE w1, ok)

(***************************************************************************)
(* aws_client.py: reads and the controllability gate.                      *)
(***************************************************************************)
\* a variant that answers from a remembered state and not from what it has read
get_instance_state_cached(w, instance_id) ==
    Bind(describe_instances(w, instance_id), LAMBDA r :
    Ret([r.w EXCEPT !.raising = w.raising], IF r.ret.found THEN "stopped" ELSE "None"))

get_instance_state(w, instance_id) ==
    Try(w,
    Bind(describe_instances(w, instance_id), LAMBDA r :
    Ret(r.w, IF r.ret.found THEN r.ret.State ELSE "None")))

get_instance_details(w, instance_id) == Try(w, describe_instances(w, instance_id))

get_instance_name(w, instance_id) ==
    Bind(get_instance_details(w, instance_id), LAMBDA r :
    Ret(r.w, IF r.ret.found THEN r.ret.Tags["Name"] ELSE None))

FalsyValues == {<<"f", "a", "l", "s", "e">>, <<"0">>, <<"n", "o">>, <<"d", "i", "s", "a", "b", "l", "e", "d">>, <<"o", "f", "f">>}

can_control_instance_always(instance) == instance.found

can_control_instance_casesensitive(instance) ==
    /\ instance.found
    /\ instance.Tags["EC2ControlsEnabled"] # None
    /\ instance.Tags["EC2ControlsEnabled"] # <<>>
    /\ instance.Tags["EC2ControlsEnabled"] \notin FalsyValues

\* a variant that compares the value without the blanks around it
can_control_instance_trimmed(instance) ==
    IF ~instance.found THEN FALSE
    ELSE LET tag_value == instance.Tags["EC2ControlsEnabled"]
         IN  IF tag_value = None THEN FALSE
             ELSE tag_value # <<>> /\ lower(strip(tag_value)) \notin FalsyValues

can_control_instance(instance) ==
    IF ~instance.found THEN FALSE
    ELSE LET tag_value == instance.Tags["EC2ControlsEnabled"]
         IN  IF tag_value = None THEN FALSE
             ELSE tag_value # <<>> /\ lower(tag_value) \notin FalsyValues

can_control_instance_by_id(w, instance_id) ==
    Bind(get_instance_details(w, instance_id), LAMBDA r :
    Bind(IF ~r.ret.found THEN FALSE ELSE can_control_instance(r.ret), LAMBDA can_control :
    Ret(Note(r.w, "can_control_instance_by_id", instance_id, can_control), can_control)))

(***************************************************************************)
(* aws_client.py: start, stop, restart.                                    *)
(***************************************************************************)
start_instance_anystate(w, instance_id) ==
    Bind(can_control_instance_by_id(w, instance_id), LAMBDA g :
    IF ~g.ret THEN Ret(g.w, FALSE) ELSE
    Bind(start_instances(g.w, instance_id), LAMBDA c : Ret(c.w, c.ret)))

\* a variant that refuses only the three states it names
start_instance_unless_named(w, instance_id) ==
    Try(w,
    Bind(can_control_instance_by_id(w, instance_id), LAMBDA g :
    IF ~g.ret THEN Ret(g.w, FALSE) ELSE
    Bind(get_instance_state(g.w, instance_id), LAMBDA s :
    IF s.ret = "None" THEN Ret(s.w, FALSE) ELSE
    IF s.ret = "running" THEN Ret(s.w, FALSE) ELSE
    IF s.ret = "pending" THEN Ret(s.w, FALSE) ELSE
    IF s.ret = "stopping" THEN Ret(s.w, FALSE) ELSE
    Bind(start_instances(s.w, instance_id), LAMBDA c :
    IF ~c.ret THEN Ret(c.w, FALSE) ELSE
    Bind(get_instance_name(c.w, instance_id), LAMBDA nm : Ret(nm.w, TRUE))))))

start_instance(w, instance_id) ==
    Try(w,
    Bind(can_control_instance_by_id(w, instance_id), LAMBDA g :
    IF ~g.ret THEN Ret(g.w, FALSE) ELSE
    Bind(get_instance_state(g.w, instance_id), LAMBDA s :
    IF s.ret = "None" THEN Ret(s.w, FALSE) ELSE
    IF s.ret = "running" THEN Ret(s.w, FALSE) ELSE
    IF s.ret = "pending" THEN Ret(s.w, FALSE) ELSE
    IF s.ret = "stopping" THEN Ret(s.w, FALSE) ELSE
    IF s.ret \notin {"stopped"} THEN Ret(s.w, FALSE) ELSE
    Bind(start_instances(s.w, instance_id), LAMBDA c :
    IF ~c.ret THEN Ret(c.w, FALSE) ELSE
    Bind(get_instance_name(c.w, instance_id), LAMBDA nm : Ret(nm.w, TRUE))))))

stop_instance(w, instance_id) ==
    Try(w,
    Bind(can_control_instance_by_id(w, instance_id), LAMBDA g :
    IF ~g.ret THEN Ret(g.w, FALSE) ELSE
    Bind(get_instance_state(g.w, instance_id), LAMBDA s :
    IF s.ret = "None" THEN Ret(s.w, FALSE) ELSE
    IF s.ret = "stopped" THEN Ret(s.w, FALSE) ELSE
    IF s.ret = "stopping" THEN Ret(s.w, FALSE) ELSE
    IF s.ret = "pending" THEN Ret(s.w, FALSE) ELSE
    IF s.ret \notin {"running"} THEN Ret(s.w, FALSE) ELSE
    Bind(stop_instances(s.w, instance_id), LAMBDA c :
    IF ~c.ret THEN Ret(c.w, FALSE) ELSE
    Bind(get_instance_name(c.w, instance_id), LAMBDA nm : Ret(nm.w, TRUE))))))

restart_instance(w, instance_id) ==
    Try(w,
    Bind(can_control_instance_by_id(w, instance_id), LAMBDA g :
    IF ~g.ret THEN Ret(g.w, FALSE) ELSE
    Bind(get_instance_state(g.w, instance_id), LAMBDA s :
    IF s.ret = "None" THEN Ret(s.w, FALSE) ELSE
    IF s.ret = "stopped" THEN Ret(s.w, FALSE) ELSE
    IF s.ret = "pending" THEN Ret(s.w, FALSE) ELSE
    IF s.ret = "stopping" THEN Ret(s.w, FALSE) ELSE
    IF s.ret \notin {"running"} THEN Ret(s.w, FALSE) ELSE
    Bind(reboot_instances(s.w, instance_id), LAMBDA c :
    IF ~c.ret THEN Ret(c.w, FALSE) ELSE
    Bind(get_instance_name(c.w, instance_id), LAMBDA nm : Ret(nm.w, TRUE))))))

(***************************************************************************)
(* aws_client.py: identifier resolution.                                   *)
(***************************************************************************)
get_instance_by_name_first(w, instance_name) ==
    Bind(describe_instances_by_name(w, instance_name), LAMBDA r :
    Bind({i \in r.ret : can_control_instance(i)}, LAMBDA instances :
    IF ~r.ok THEN Ret(r.w, None)
    ELSE IF instances # {} THEN Ret(r.w, (CHOOSE i \in instances : TRUE).InstanceId)
    ELSE Ret(r.w, None)))

get_instance_by_name(w, instance_name) ==
    Try(w,
    Bind(describe_instances_by_name(w, instance_name), LAMBDA r :
    Bind({i \in r.ret : can_control_instance(i)}, LAMBDA instances :
    IF ~r.ok THEN Ret(r.w, None)
    ELSE IF Cardinality(instances) = 1 THEN Ret(r.w, (CHOOSE i \in instances : TRUE).InstanceId)
    ELSE IF Cardinality(instances) > 1 THEN Ret(r.w, None)
    ELSE Ret(r.w, None))))

resolve_instance_identifier_lookup(w, identifier) ==
    IF startswith(identifier, <<"i", "-">>)
    THEN Bind(describe_instances(w, identifier), LAMBDA r : Ret(r.w, identifier))
    ELSE get_instance_by_name(w, identifier)

resolve_instance_identifier(w, identifier) ==
    IF startswith(identifier, <<"i", "-">>) THEN Ret(w, identifier)
    ELSE Bind(get_instance_by_name(w, identifier), LAMBDA r :
         IF r.ret # None /\ r.ret # <<>> THEN Ret(r.w, r.ret) ELSE Ret(r.w, None))

(***************************************************************************)
(* aws_client.py: the search among the controllable instances.             *)
(***************************************************************************)
\* describe_instances(Filters=[instance-state-name in the four states])
describe_instances_all(w) ==
    LET ok == ~Raises(w)
        found == {id \in DOMAIN w.state : w.state[id] \in Lifecycle}
    IN  [w |-> Call(w, "describe_instances_all", <<"a", "l", "l">>, ok, "-"), ok |-> ok,
         ret |-> IF ok THEN {InstanceOf(w, id) : id \in found} ELSE {}]

get_all_instances(w) ==
    Try(w,
    Bind(describe_instances_all(w), LAMBDA r : Ret(r.w, IF r.ok THEN r.ret ELSE {})))

get_controllable_instances(w) ==
    Try(w,
    Bind(get_all_instances(w), LAMBDA r : Ret(r.w, {i \in r.ret : can_control_instance(i)})))

\* a in b, of two strings
Contains(a, b) == \E k \in 0..(Len(b) - Len(a)) : SubSeq(b, k + 1, k + Len(a)) = a

\* the characters of the model in the order of their code points
CodePoints == <<" ", "'", ",", "-", "0", "1", "2", "3", "4", "5", "6", "7", "8", "9", ":", "A", "B", "C", "D", "E", "F", "G", "H", "I", "J", "K", "L", "M", "N", "O", "P", "Q", "R", "S", "T", "U", "V", "W", "X", "Y", "Z", "a", "b", "c", "d", "e", "f", "g", "h", "i", "j", "k", "l", "m", "n", "o", "p", "q", "r", "s", "t", "u", "v", "w", "x", "y", "z">>

ord(c) == CHOOSE k \in 1..Len(CodePoints) : CodePoints[k] = c

\* a < b, of two strings
RECURSIVE StrLess(_, _)
StrLess(a, b) ==
    IF b = <<>> THEN FALSE
    ELSE IF a = <<>> THEN TRUE
    ELSE IF Head(a) # Head(b) THEN ord(Head(a)) < ord(Head(b))
    ELSE StrLess(Tail(a), Tail(b))

\* a variant that orders by name and ID alone
sort_key_unranked(instance, search_term_lower) ==
    <<2, IF instance.Name = None THEN <<>> ELSE lower(instance.Name), lower(instance.InstanceId)>>

\* the key the results are sorted by: exact matches, then prefixes, then the rest
sort_key(instance, search_term_lower) ==
    LET instance_id == lower(instance.InstanceId)
        instance_name == IF instance.Name = None THEN <<>> ELSE lower(instance.Name)
    IN  IF search_term_lower = instance_id \/ search_term_lower = instance_name
        THEN <<0, instance_name, instance_id>>
        ELSE IF startswith(instance_id, search_term_lower) \/ startswith(instance_name, search_term_lower)
        THEN <<1, instance_name, instance_id>>
        ELSE <<2, instance_name, instance_id>>

\* k < l, of two keys
KeyLess(k, l) ==
    \/ k[1] < l[1]
    \/ k[1] = l[1] /\ StrLess(k[2], l[2])
    \/ k[1] = l[1] /\ k[2] = l[2] /\ StrLess(k[3], l[3])

\* list.sort(key=sort_key) of the matches; no two have the same key
RECURSIVE sort(_, _)
sort(matching, search_term_lower) ==
    IF matching = {} THEN <<>>
    ELSE LET first == CHOOSE m \in matching : \A o \in matching \ {m} :
                         KeyLess(sort_key(m, search_term_lower), sort_key(o, search_term_lower))
         IN  <<first>> \o sort(matching \ {first}, search_term_lower)

max_results == 10

fuzzy_search_instances(w, search_term) ==
    Try(w,
    Bind(get_controllable_instances(w), LAMBDA r :
    Bind(lower(search_term), LAMBDA search_term_lower :
    Bind({[InstanceId |-> i.InstanceId, Name |-> i.Tags["Name"], State |-> i.State] :
             i \in {i \in r.ret :
                       \/ Contains(search_term_lower, lower(i.InstanceId))
                       \/ /\ i.Tags["Name"] # None /\ i.Tags["Name"] # <<>>
                          /\ Contains(search_term_lower, lower(i.Tags["Name"]))}},
         LAMBDA matching :
    Bind(sort(matching, search_term_lower), LAMBDA sorted :
    Ret(r.w, IF Len(sorted) > max_results THEN SubSeq(sorted, 1, max_results) ELSE sorted))))))

(***************************************************************************)
(* aws_client.py: tags and the stakeholder registry.                       *)
(***************************************************************************)
\* a variant without the try statement of the code
get_instance_tags_uncaught(w, instance_id) ==
    Bind(describe_instances(w, instance_id), LAMBDA r :
    Ret(r.w, IF r.ret.found THEN r.ret.Tags ELSE NoTags))

get_instance_tags(w, instance_id) ==
    Try(w,
    Bind(describe_instances(w, instance_id), LAMBDA r :
    Ret(r.w, IF r.ret.found THEN r.ret.Tags ELSE NoTags)))

get_stakeholders_tag(w, instance_id) ==
    Bind(get_instance_tags(w, instance_id), LAMBDA r : Ret(r.w, r.ret["Stakeholders"]))

\* a variant that issues the write a second time when the first one raised
set_stakeholders_tag_retrying(w, instance_id, stakeholders_list) ==
    Try(w,
    Bind(Try(w, create_tags(w, instance_id, [k \in {"Stakeholders"} |-> join(stakeholders_list, ",")])),
         LAMBDA first :
    IF first.ret THEN first
    ELSE create_tags(first.w, instance_id, [k \in {"Stakeholders"} |-> join(stakeholders_list, ",")])))

set_stakeholders_tag(w, instance_id, stakeholders_list) ==
    Try(w,
    create_tags(w, instance_id, [k \in {"Stakeholders"} |-> join(stakeholders_list, ",")]))

delete_stakeholders_tag(w, instance_id) == Try(w, delete_tags(w, instance_id, {"Stakeholders"}))

\* [s.strip() for s in pieces if s.strip()]
RECURSIVE StripNonEmpty(_)
StripNonEmpty(pieces) ==
    IF pieces = <<>> THEN <<>>
    ELSE IF strip(Head(pieces)) # <<>> THEN <<strip(Head(pieces))>> \o StripNonEmpty(Tail(pieces))
    ELSE StripNonEmpty(Tail(pieces))

\* the list the registry functions read out of the tag value
current_stakeholders(current_stakeholders_str) ==
    IF current_stakeholders_str # None /\ current_stakeholders_str # <<>>
    THEN StripNonEmpty(split(current_stakeholders_str, ","))
    ELSE <<>>

\* [s for s in list if s != user_id]
RECURSIVE Without(_, _)
Without(list, user_id) ==
    IF list = <<>> THEN <<>>
    ELSE IF Head(list) # user_id THEN <<Head(list)>> \o Without(Tail(list), user_id)
    ELSE Without(Tail(list), user_id)

MaxStakeholders == 10

add_stakeholder_capacity_first(w, instance_id, user_id) ==
    Bind(get_stakeholders_tag(w, instance_id), LAMBDA t :
    Bind(current_stakeholders(t.ret), LAMBDA cur :
    IF Len(cur) >= MaxStakeholders THEN Ret(t.w, <<FALSE, "max_limit_reached">>) ELSE
    IF In(user_id, cur) THEN Ret(t.w, <<TRUE, "already_stakeholder">>) ELSE
    Bind(set_stakeholders_tag(t.w, instance_id, cur \o <<user_id>>), LAMBDA c :
    IF c.ret THEN Ret(c.w, <<TRUE, "added">>) ELSE Ret(c.w, <<FALSE, "failed">>))))

\* a variant that takes the list from the store at the moment of its write
add_stakeholder_after_read_atomic(w, instance_id, user_id, current_stakeholders_str) ==
    Bind(current_stakeholders(w.tags[instance_id]["Stakeholders"]), LAMBDA cur :
    IF In(user_id, cur) THEN Ret(w, <<TRUE, "already_stakeholder">>) ELSE
    IF Len(cur) >= MaxStakeholders THEN Ret(w, <<FALSE, "max_limit_reached">>) ELSE
    Bind(set_stakeholders_tag(w, instance_id, cur \o <<user_id>>), LAMBDA c :
    IF c.ret THEN Ret(c.w, <<TRUE, "added">>) ELSE Ret(c.w, <<FALSE, "failed">>)))

\* a variant that does not look at the size of the list
add_stakeholder_after_read_unbounded(w, instance_id, user_id, current_stakeholders_str) ==
    Bind(current_stakeholders(current_stakeholders_str), LAMBDA cur :
    IF In(user_id, cur) THEN Ret(w, <<TRUE, "already_stakeholder">>) ELSE
    Bind(set_stakeholders_tag(w, instance_id, cur \o <<user_id>>), LAMBDA c :
    IF c.ret THEN Ret(c.w, <<TRUE, "added">>) ELSE Ret(c.w, <<FALSE, "failed">>)))

\* add_stakeholder from the moment its read of the tag has returned
add_stakeholder_after_read(w, instance_id, user_id, current_stakeholders_str) ==
    Bind(current_stakeholders(current_stakeholders_str), LAMBDA cur :
    IF In(user_id, cur) THEN Ret(w, <<TRUE, "already_stakeholder">>) ELSE
    IF Len(cur) >= MaxStakeholders THEN Ret(w, <<FALSE, "max_limit_reached">>) ELSE
    Bind(set_stakeholders_tag(w, instance_id, cur \o <<user_id>>), LAMBDA c :
    IF c.ret THEN Ret(c.w, <<TRUE, "added">>) ELSE Ret(c.w, <<FALSE, "failed">>)))

add_stakeholder(w, instance_id, user_id) ==
    Bind(get_stakeholders_tag(w, instance_id), LAMBDA t :
    add_stakeholder_after_read(t.w, instance_id, user_id, t.ret))

remove_stakeholder_writes_empty(w, instance_id, user_id) ==
    Bind(get_stakeholders_tag(w, instance_id), LAMBDA t :
    Bind(current_stakeholders(t.ret), LAMBDA cur :
    IF ~In(user_id, cur) THEN Ret(t.w, <<TRUE, "not_stakeholder">>) ELSE
    Bind(Without(cur, user_id), LAMBDA new_stakeholders :
    Bind(set_stakeholders_tag(t.w, instance_id, new_stakeholders), LAMBDA c :
    IF c.ret
    THEN Ret(c.w, <<TRUE, IF new_stakeholders = <<>> THEN "removed_and_deleted_tag" ELSE "removed">>)
    ELSE Ret(c.w, <<FALSE, "failed">>)))))

\* remove_stakeholder from the moment its read of the tag has returned
remove_stakeholder_after_read(w, instance_id, user_id, current_stakeholders_str) ==
    Bind(current_stakeholders(current_stakeholders_str), LAMBDA cur :
    IF ~In(user_id, cur) THEN Ret(w, <<TRUE, "not_stakeholder">>) ELSE
    Bind(Without(cur, user_id), LAMBDA new_stakeholders :
    IF new_stakeholders # <<>>
    THEN Bind(set_stakeholders_tag(w, instance_id, new_stakeholders), LAMBDA c :
         IF c.ret THEN Ret(c.w, <<TRUE, "removed">>) ELSE Ret(c.w, <<FALSE, "failed">>))
    ELSE Bind(delete_stakeholders_tag(w, instance_id), LAMBDA c :
         IF c.ret THEN Ret(c.w, <<TRUE, "removed_and_deleted_tag">>) ELSE Ret(c.w, <<FALSE, "failed">>))))

remove_stakeholder(w, instance_id, user_id) ==
    Bind(get_stakeholders_tag(w, instance_id), LAMBDA t :
    remove_stakeholder_after_read(t.w, instance_id, user_id, t.ret))

is_user_stakeholder(w, instance_id, user_id) ==
    Bind(get_stakeholders_tag(w, instance_id), LAMBDA t :
    Ret(t.w, In(user_id, current_stakeholders(t.ret))))

(***************************************************************************)
(* Numbers in strings.                                                     *)
(***************************************************************************)
Digits == <<"0", "1", "2", "3", "4", "5", "6", "7", "8", "9">>

IsDigit(c) == \E k \in 1..Len(Digits) : Digits[k] = c

DigitValue(c) == (CHOOSE k \in 1..Len(Digits) : Digits[k] = c) - 1

AllDigits(s) == s # <<>> /\ \A k \in 1..Len(s) : IsDigit(s[k])

\* the number a string of digits writes
RECURSIVE ToNumber(_)
ToNumber(s) == IF s = <<>> THEN 0 ELSE 10 * ToNumber(SubSeq(s, 1, Len(s) - 1)) + DigitValue(s[Len(s)])

\* the digits of a natural number
RECURSIVE ToDigits(_)
ToDigits(n) == IF n < 10 THEN <<Digits[n + 1]>> ELSE ToDigits(n \div 10) \o <<Digits[(n % 10) + 1]>>

\* %02d
TwoDigits(n) == IF n < 10 THEN <<"0">> \o ToDigits(n) ELSE ToDigits(n)

(***************************************************************************)
(* schedule.py. A time of day is its second of the day, NoTime is None.    *)
(***************************************************************************)
NoTime == -1

\* dateutil.parser.parse(time_str).time() for the clock forms H, H:MM and
\* H:MM:SS, with an optional am/pm after optional blanks: the second of the day,
\* NoTime where the parser raises. A bare number is read as a day of the month
\* or a year and leaves the time at 00:00.
\* a variant that takes 12 for the hour also before noon
dateutil_parse_noon_at_12am(time_str) ==
    LET hasAm == endswith(time_str, <<"a", "m">>)
        hasPm == endswith(time_str, <<"p", "m">>)
        clock == IF hasAm \/ hasPm THEN rstrip(SubSeq(time_str, 1, Len(time_str) - 2)) ELSE time_str
        fields == split(clock, ":")
        hh == fields[1]
        mm == IF Len(fields) >= 2 THEN fields[2] ELSE <<"0", "0">>
        ss == IF Len(fields) >= 3 THEN fields[3] ELSE <<"0", "0">>
        hour == ToNumber(hh)
        minute == ToNumber(mm)
        second == ToNumber(ss)
    IN  IF \/ Len(fields) > 3
           \/ ~AllDigits(hh) \/ Len(hh) > 2
           \/ ~AllDigits(mm) \/ Len(mm) # 2
           \/ ~AllDigits(ss) \/ Len(ss) # 2
        THEN NoTime
        ELSE IF Len(fields) = 1 /\ ~(hasAm \/ hasPm) THEN (IF hour = 0 THEN NoTime ELSE 0)
        ELSE IF minute > 59 \/ second > 59 THEN NoTime
        ELSE IF hasAm \/ hasPm
             THEN IF hour > 12 THEN NoTime
                  ELSE IF hasPm /\ hour < 12 THEN (hour + 12) * 3600 + minute * 60 + second
                  ELSE hour * 3600 + minute * 60 + second
        ELSE IF hour > 23 THEN NoTime
        ELSE hour * 3600 + minute * 60 + second

dateutil_parse(time_str) ==
    LET hasAm == endswith(time_str, <<"a", "m">>)
        hasPm == endswith(time_str, <<"p", "m">>)
        clock == IF hasAm \/ hasPm THEN rstrip(SubSeq(time_str, 1, Len(time_str) - 2)) ELSE time_str
        fields == split(clock, ":")
        hh == fields[1]
        mm == IF Len(fields) >= 2 THEN fields[2] ELSE <<"0", "0">>
        ss == IF Len(fields) >= 3 THEN fields[3] ELSE <<"0", "0">>
        hour == ToNumber(hh)
        minute == ToNumber(mm)
        second == ToNumber(ss)
    IN  IF \/ Len(fields) > 3
           \/ ~AllDigits(hh) \/ Len(hh) > 2
           \/ ~AllDigits(mm) \/ Len(mm) # 2
           \/ ~AllDigits(ss) \/ Len(ss) # 2
        THEN NoTime
        ELSE IF Len(fields) = 1 /\ ~(hasAm \/ hasPm) THEN (IF hour = 0 THEN NoTime ELSE 0)
        ELSE IF minute > 59 \/ second > 59 THEN NoTime
        ELSE IF hasAm \/ hasPm
             THEN IF hour > 12 THEN NoTime
                  ELSE IF hasPm /\ hour < 12 THEN (hour + 12) * 3600 + minute * 60 + second
                  ELSE IF hasAm /\ hour = 12 THEN minute * 60 + second
                  ELSE hour * 3600 + minute * 60 + second
        ELSE IF hour > 23 THEN NoTime
        ELSE hour * 3600 + minute * 60 + second

parse_time(time_str) ==
    IF time_str = None \/ time_str = <<>> \/ strip(time_str) = <<>> THEN NoTime
    ELSE LET t == lower(strip(time_str))
             u == IF (endswith(t, <<"a", "m">>) \/ endswith(t, <<"p", "m">>)) /\ ~In(":", t) /\ Len(t) <= 4
                  THEN SubSeq(t, 1, Len(t) - 2) \o <<":", "0", "0">> \o SubSeq(t, Len(t) - 1, Len(t))
                  ELSE t
         IN  dateutil_parse(u)

\* strftime('%H:%M')
format_time_for_tag(time_obj) ==
    IF time_obj = NoTime THEN None
    ELSE TwoDigits(time_obj \div 3600) \o <<":">> \o TwoDigits((time_obj \div 60) % 60)

\* the dictionary of the schedule tags that are set: a missing key is None
get_power_schedule_tags(w, instance_id) ==
    Bind(get_instance_tags(w, instance_id), LAMBDA r :
    Ret(r.w, [on_time |-> r.ret["PowerScheduleOnTime"], off_time |-> r.ret["PowerScheduleOffTime"]]))

\* the schedule read back: none is Python's None; a key of the dictionary that
\* is missing is None
get_schedule(w, instance_id) ==
    Bind(get_power_schedule_tags(w, instance_id), LAMBDA r :
    IF r.ret.on_time = None /\ r.ret.off_time = None
    THEN Ret(r.w, [none |-> TRUE, start_time |-> None, stop_time |-> None]) ELSE
    Bind(parse_time(r.ret.on_time), LAMBDA on_time :
    Bind(parse_time(r.ret.off_time), LAMBDA off_time :
    Ret(r.w, [none |-> FALSE,
              start_time |-> IF r.ret.on_time # None /\ on_time # NoTime
                             THEN format_time_for_tag(on_time) ELSE None,
              stop_time |-> IF r.ret.off_time # None /\ off_time # NoTime
                            THEN format_time_for_tag(off_time) ELSE None]))))

\* a variant that writes the two tags one after the other
set_power_schedule_tags_one_by_one(w, instance_id, on_time, off_time) ==
    Try(w,
    IF on_time = None /\ off_time = None THEN Ret(w, FALSE) ELSE
    Bind(create_tags(w, instance_id, [k \in {"PowerScheduleOnTime"} |-> on_time]), LAMBDA first :
    IF ~first.ret THEN Ret(first.w, FALSE)
    ELSE create_tags(first.w, instance_id, [k \in {"PowerScheduleOffTime"} |-> off_time])))

set_power_schedule_tags(w, instance_id, on_time, off_time) ==
    Try(w,
    IF on_time = None /\ off_time = None THEN Ret(w, FALSE)
    ELSE create_tags(w, instance_id,
                     [k \in {x \in {"PowerScheduleOnTime", "PowerScheduleOffTime"} :
                                (x = "PowerScheduleOnTime" /\ on_time # None)
                                \/ (x = "PowerScheduleOffTime" /\ off_time # None)}
                        |-> IF k = "PowerScheduleOnTime" THEN on_time ELSE off_time]))

delete_power_schedule_tags(w, instance_id) ==
    Try(w,
    delete_tags(w, instance_id, {"PowerScheduleOnTime", "PowerScheduleOffTime"}))

set_schedule(w, instance_id, start_time, stop_time) ==
    Bind(can_control_instance_by_id(w, instance_id), LAMBDA g :
    IF ~g.ret THEN Ret(g.w, FALSE) ELSE
    Bind(format_time_for_tag(start_time), LAMBDA on_time_str :
    Bind(format_time_for_tag(stop_time), LAMBDA off_time_str :
    IF on_time_str = None \/ off_time_str = None THEN Ret(g.w, FALSE)
    ELSE set_power_schedule_tags(g.w, instance_id, on_time_str, off_time_str))))

\* a variant that reports failure when there was no schedule to delete
delete_schedule_checks_presence(w, instance_id) ==
    Bind(can_control_instance_by_id(w, instance_id), LAMBDA g :
    IF ~g.ret THEN Ret(g.w, FALSE) ELSE
    Bind(delete_power_schedule_tags(g.w, instance_id), LAMBDA d :
    Ret(d.w, d.ret /\ (w.tags[instance_id]["PowerScheduleOnTime"] # None
                       \/ w.tags[instance_id]["PowerScheduleOffTime"] # None))))

delete_schedule(w, instance_id) ==
    Bind(can_control_instance_by_id(w, instance_id), LAMBDA g :
    IF ~g.ret THEN Ret(g.w, FALSE) ELSE delete_power_schedule_tags(g.w, instance_id))

(***************************************************************************)
(* disable_schedule.py. An instant is its minute since the start of the    *)
(* clock; NoInstant is None, and so is NoHours for a number of hours.      *)
(***************************************************************************)
NoHours == -1
NoInstant == -1

\* int(text): an optional sign and digits, blanks around them ignored
IsInt(text) ==
    LET t == strip(text)
        digits == IF t # <<>> /\ t[1] \in {"+", "-"} THEN Tail(t) ELSE t
    IN  AllDigits(digits)

IntOf(text) ==
    LET t == strip(text)
    IN  IF t[1] = "-" THEN 0 - ToNumber(Tail(t))
        ELSE IF t[1] = "+" THEN ToNumber(Tail(t))
        ELSE ToNumber(t)

\* a variant that lets zero hours through
parse_hours_allows_zero(hours_str) ==
    IF hours_str = None \/ hours_str = <<>> \/ strip(hours_str) = <<>> THEN NoHours
    ELSE LET h == lower(strip(hours_str))
             number == SubSeq(h, 1, Len(h) - 1)
         IN  IF ~endswith(h, <<"h">>) THEN NoHours
             ELSE IF ~IsInt(number) THEN NoHours
             ELSE IF IntOf(number) < 0 THEN NoHours
             ELSE IntOf(number)

parse_hours(hours_str) ==
    IF hours_str = None \/ hours_str = <<>> \/ strip(hours_str) = <<>> THEN NoHours
    ELSE LET h == lower(strip(hours_str))
             number == SubSeq(h, 1, Len(h) - 1)
         IN  IF ~endswith(h, <<"h">>) THEN NoHours
             ELSE IF ~IsInt(number) THEN NoHours
             ELSE IF IntOf(number) < 1 THEN NoHours
             ELSE IntOf(number)

\* datetime.isoformat() of an instant in UTC: day, T, HH:MM, +00:00
isoformat(t) ==
    ToDigits(t \div 1440) \o <<"T">> \o TwoDigits((t % 1440) \div 60) \o <<":">> \o TwoDigits(t % 60)
        \o <<"+", "0", "0", ":", "0", "0">>

\* datetime.fromisoformat(), an instant without an offset taken as UTC;
\* NoInstant where it raises ValueError
fromisoformat(text) ==
    LET body == IF endswith(text, <<"+", "0", "0", ":", "0", "0">>) THEN SubSeq(text, 1, Len(text) - 6) ELSE text
        ts == {k \in 1..Len(body) : body[k] = "T"}
        day == IF ts = {} THEN <<>> ELSE SubSeq(body, 1, (CHOOSE k \in ts : TRUE) - 1)
        clock == IF ts = {} THEN <<>> ELSE SubSeq(body, (CHOOSE k \in ts : TRUE) + 1, Len(body))
    IN  IF /\ Cardinality(ts) = 1
           /\ AllDigits(day)
           /\ Len(clock) = 5
           /\ clock[3] = ":"
           /\ AllDigits(SubSeq(clock, 1, 2))
           /\ AllDigits(SubSeq(clock, 4, 5))
           /\ ToNumber(SubSeq(clock, 1, 2)) <= 23
           /\ ToNumber(SubSeq(clock, 4, 5)) <= 59
        THEN ToNumber(day) * 1440 + ToNumber(SubSeq(clock, 1, 2)) * 60 + ToNumber(SubSeq(clock, 4, 5))
        ELSE NoInstant

get_disable_schedule_tag(w, instance_id) ==
    Bind(get_instance_tags(w, instance_id), LAMBDA r : Ret(r.w, r.ret["PowerScheduleDisabledUntil"]))

set_disable_schedule_tag(w, instance_id, disable_until) ==
    Try(w,
    IF disable_until = None THEN Ret(w, FALSE)
    ELSE create_tags(w, instance_id, [k \in {"PowerScheduleDisabledUntil"} |-> disable_until]))

delete_disable_schedule_tag(w, instance_id) ==
    Try(w,
    delete_tags(w, instance_id, {"PowerScheduleDisabledUntil"}))

get_disable_schedule(w, instance_id) ==
    Bind(get_disable_schedule_tag(w, instance_id), LAMBDA r :
    IF r.ret = None \/ r.ret = <<>> THEN Ret(r.w, NoInstant) ELSE Ret(r.w, fromisoformat(r.ret)))

set_disable_schedule(w, instance_id, hours) ==
    Bind(can_control_instance_by_id(w, instance_id), LAMBDA g :
    IF ~g.ret THEN Ret(g.w, FALSE)
    ELSE set_disable_schedule_tag(g.w, instance_id, isoformat(g.w.now + 60 * hours)))

delete_disable_schedule(w, instance_id) ==
    Bind(can_control_instance_by_id(w, instance_id), LAMBDA g :
    IF ~g.ret THEN Ret(g.w, FALSE) ELSE delete_disable_schedule_tag(g.w, instance_id))

\* a variant that counts the instant of expiry as still disabled
is_schedule_disabled_inclusive(w, instance_id) ==
    Bind(get_disable_schedule(w, instance_id), LAMBDA r :
    IF r.ret = NoInstant THEN Ret(r.w, FALSE) ELSE Ret(r.w, r.w.now <= r.ret))

\* is_disabled = now < disable_until, both instants counted in the same unit
schedule_disabled_at(now_at, disable_until) == now_at < disable_until

is_schedule_disabled(w, instance_id) ==
    Bind(get_disable_schedule(w, instance_id), LAMBDA r :
    IF r.ret = NoInstant THEN Ret(r.w, FALSE) ELSE Ret(r.w, schedule_disabled_at(r.w.now, r.ret)))

(***************************************************************************)
(* Display formats of schedule.py and disable_schedule.py.                 *)
(***************************************************************************)
\* datetime.strptime(text, '%H:%M'); NoTime where it raises ValueError
strptime(text) ==
    LET colon == {k \in 1..Len(text) : text[k] = ":"}
        hh == IF colon = {} THEN <<>> ELSE SubSeq(text, 1, (CHOOSE k \in colon : TRUE) - 1)
        mm == IF colon = {} THEN <<>> ELSE SubSeq(text, (CHOOSE k \in colon : TRUE) + 1, Len(text))
    IN  IF /\ Cardinality(colon) = 1
           /\ AllDigits(hh) /\ Len(hh) <= 2 /\ ToNumber(hh) <= 23
           /\ AllDigits(mm) /\ Len(mm) <= 2 /\ ToNumber(mm) <= 59
        THEN ToNumber(hh) * 3600 + ToNumber(mm) * 60
        ELSE NoTime

\* text.lstrip('0')
RECURSIVE lstrip_zero(_)
lstrip_zero(text) == IF text # <<>> /\ Head(text) = "0" THEN lstrip_zero(Tail(text)) ELSE text

\* strftime('%I:%M %p').lstrip('0')
strftime_12(t) ==
    LET hour == t \div 3600
        hour12 == IF hour % 12 = 0 THEN 12 ELSE hour % 12
    IN  lstrip_zero(TwoDigits(hour12) \o <<":">> \o TwoDigits((t \div 60) % 60)
                    \o (IF hour < 12 THEN <<" ", "A", "M">> ELSE <<" ", "P", "M">>))

format_schedule_display(schedule) ==
    LET start_time == IF schedule.start_time = None THEN <<>> ELSE schedule.start_time
        stop_time == IF schedule.stop_time = None THEN <<>> ELSE schedule.stop_time
    IN  IF schedule.none \/ (schedule.start_time = None /\ schedule.stop_time = None)
        THEN <<"N", "o", " ", "s", "c", "h", "e", "d", "u", "l", "e", " ", "s", "e", "t">>
        ELSE IF strptime(start_time) # NoTime /\ strptime(stop_time) # NoTime
        THEN strftime_12(strptime(start_time)) \o <<" ", "t", "o", " ">> \o strftime_12(strptime(stop_time))
        ELSE start_time \o <<" ", "t", "o", " ">> \o stop_time

\* a variant that takes the instant of expiry as not yet expired
format_disable_schedule_display_late(now_at, disable_datetime) ==
    LET remaining == disable_datetime - now_at
        hours == remaining \div 3600
        minutes == (remaining % 3600) \div 60
    IN  IF disable_datetime = NoInstant THEN <<"N", "o", " ", "d", "i", "s", "a", "b", "l", "e", " ", "s", "c", "h", "e", "d", "u", "l", "e", " ", "s", "e", "t">>
        ELSE IF now_at > disable_datetime THEN <<"N", "o", " ", "d", "i", "s", "a", "b", "l", "e", " ", "s", "c", "h", "e", "d", "u", "l", "e", " ", "s", "e", "t", " ", "(", "e", "x", "p", "i", "r", "e", "d", ")">>
        ELSE IF hours > 0
             THEN IF minutes > 0
                  THEN <<"D", "i", "s", "a", "b", "l", "e", "d", " ", "f", "o", "r", " ">> \o ToDigits(hours) \o <<"h", " ">> \o ToDigits(minutes) \o <<"m">>
                  ELSE <<"D", "i", "s", "a", "b", "l", "e", "d", " ", "f", "o", "r", " ">> \o ToDigits(hours) \o <<"h">>
        ELSE <<"D", "i", "s", "a", "b", "l", "e", "d", " ", "f", "o", "r", " ">> \o ToDigits(minutes) \o <<"m">>

\* format_disable_schedule_display at the instant now_at, both instants in seconds
format_disable_schedule_display_at(now_at, disable_datetime) ==
    LET remaining == disable_datetime - now_at
        hours == remaining \div 3600
        minutes == (remaining % 3600) \div 60
    IN  IF disable_datetime = NoInstant THEN <<"N", "o", " ", "d", "i", "s", "a", "b", "l", "e", " ", "s", "c", "h", "e", "d", "u", "l", "e", " ", "s", "e", "t">>
        ELSE IF now_at >= disable_datetime THEN <<"N", "o", " ", "d", "i", "s", "a", "b", "l", "e", " ", "s", "c", "h", "e", "d", "u", "l", "e", " ", "s", "e", "t", " ", "(", "e", "x", "p", "i", "r", "e", "d", ")">>
        ELSE IF hours > 0
             THEN IF minutes > 0
                  THEN <<"D", "i", "s", "a", "b", "l", "e", "d", " ", "f", "o", "r", " ">> \o ToDigits(hours) \o <<"h", " ">> \o ToDigits(minutes) \o <<"m">>
                  ELSE <<"D", "i", "s", "a", "b", "l", "e", "d", " ", "f", "o", "r", " ">> \o ToDigits(hours) \o <<"h">>
        ELSE <<"D", "i", "s", "a", "b", "l", "e", "d", " ", "f", "o", "r", " ">> \o ToDigits(minutes) \o <<"m">>

\* the same at the clock of the world, whose instants are minutes
format_disable_schedule_display(w, disable_datetime) ==
    format_disable_schedule_display_at(60 * w.now,
                                       IF disable_datetime = NoInstant THEN NoInstant ELSE 60 * disable_datetime)

(***************************************************************************)
(* handlers.py. A handler gets the text of the command and the caller's    *)
(* user_id, and returns its reply: the text of the message with its        *)
(* placeholders (written without the backquotes of the code), the instance *)
(* it names, and what it shows.                                            *)
(***************************************************************************)
ACTION_ALIASES_POWER ==
    << <<<<"o", "n">>, {<<"o", "n">>, <<"s", "t", "a", "r", "t">>, <<"u", "p">>, <<"b", "o", "o", "t">>, <<"p", "o", "w", "e", "r", "o", "n">>, <<"e", "n", "a", "b", "l", "e">>}>>,
       <<<<"o", "f", "f">>, {<<"o", "f", "f">>, <<"s", "t", "o", "p">>, <<"d", "o", "w", "n">>, <<"h", "a", "l", "t">>, <<"s", "h", "u", "t", "d", "o", "w", "n">>, <<"p", "o", "w", "e", "r", "o", "f", "f">>}>>,
       <<<<"r", "e", "s", "t", "a", "r", "t">>, {<<"r", "e", "s", "t", "a", "r", "t">>, <<"r", "e", "b", "o", "o", "t">>, <<"b", "o", "u", "n", "c", "e">>, <<"c", "y", "c", "l", "e">>, <<"r", "e", "l", "o", "a", "d">>}>> >>

ACTION_ALIASES_STAKEHOLDER ==
    << <<<<"c", "l", "a", "i", "m">>, {<<"c", "l", "a", "i", "m">>, <<"a", "d", "d">>, <<"j", "o", "i", "n">>, <<"r", "e", "g", "i", "s", "t", "e", "r">>, <<"o", "w", "n">>}>>,
       <<<<"r", "e", "m", "o", "v", "e">>, {<<"r", "e", "m", "o", "v", "e">>, <<"u", "n", "c", "l", "a", "i", "m">>, <<"l", "e", "a", "v", "e">>, <<"u", "n", "r", "e", "g", "i", "s", "t", "e", "r">>, <<"d", "r", "o", "p">>, <<"r", "m">>, <<"d", "e", "l", "e", "t", "e">>}>>,
       <<<<"c", "h", "e", "c", "k">>, {<<"c", "h", "e", "c", "k">>, <<"s", "t", "a", "t", "u", "s">>, <<"s", "h", "o", "w">>, <<"v", "i", "e", "w">>, <<"s", "e", "e">>, <<"i", "n", "f", "o">>, <<"g", "e", "t">>, <<"s", "t", "a", "t">>}>> >>

ALIASES_SCHEDULE_CLEAR ==
    {<<"c", "l", "e", "a", "r">>, <<"r", "e", "s", "e", "t">>, <<"u", "n", "s", "e", "t">>, <<"n", "o">>, <<"r", "e", "m", "o", "v", "e">>, <<"d", "e", "l", "e", "t", "e">>, <<"n", "o", "n", "e">>, <<"e", "m", "p", "t", "y">>}

ALIASES_DISABLE_CANCEL ==
    {<<"c", "a", "n", "c", "e", "l">>, <<"c", "l", "e", "a", "r">>, <<"r", "e", "s", "e", "t">>, <<"u", "n", "s", "e", "t">>, <<"n", "o">>, <<"r", "e", "m", "o", "v", "e">>, <<"d", "e", "l", "e", "t", "e">>, <<"r", "e", "s", "u", "m", "e">>, <<"e", "n", "a", "b", "l", "e">>,
     <<"r", "e", "-", "e", "n", "a", "b", "l", "e">>, <<"r", "e", "e", "n", "a", "b", "l", "e">>, <<"u", "n", "p", "a", "u", "s", "e">>, <<"c", "o", "n", "t", "i", "n", "u", "e">>}

\* a variant that compares the word as it was typed
normalize_command_as_typed(value, alias_map) ==
    LET hits == {k \in 1..Len(alias_map) : value = alias_map[k][1] \/ value \in alias_map[k][2]}
    IN  IF hits # {} THEN alias_map[CHOOSE k \in hits : \A j \in hits : k <= j][1] ELSE value

normalize_command(value, alias_map) ==
    LET v == lower(value)
        hits == {k \in 1..Len(alias_map) : v = alias_map[k][1] \/ v \in alias_map[k][2]}
    IN  IF hits # {} THEN alias_map[CHOOSE k \in hits : \A j \in hits : k <= j][1] ELSE v

\* a variant that splits at every single blank: text.split(' ')
split_blank_each(text) == split(text, " ")

\* text.split(): the pieces between runs of blanks
RECURSIVE split_blank(_)
split_blank(text) ==
    LET t == lstrip(text)
        blanks == {k \in 1..Len(t) : IsSpace(t[k])}
        end == IF blanks = {} THEN Len(t) + 1 ELSE CHOOSE k \in blanks : \A j \in blanks : k <= j
    IN  IF t = <<>> THEN <<>>
        ELSE <<SubSeq(t, 1, end - 1)>> \o split_blank(SubSeq(t, end, Len(t)))

\* parts.index(x), counted from 0; -1 where it raises ValueError
index(parts, x) ==
    LET at == {k \in 1..Len(parts) : parts[k] = x}
    IN  IF at = {} THEN -1 ELSE (CHOOSE k \in at : \A j \in at : k <= j) - 1

Reply(text, instance_id, current_state, shown) ==
    [text |-> text, instance_id |-> instance_id, state |-> current_state, shown |-> shown]

NotFound == "Instance {instance_identifier} not found"

NotControllable ==
    "Instance {display_name} ({instance_id}) cannot be controlled by this service. Add the EC2ControlsEnabled tag with a truthy value to enable control."

\* the reply of handle_ec2_power when the power function returned False
power_failure_generic(power_state, current_state) ==
    IF power_state = <<"o", "n">> THEN "Failed to start {display_name} ({instance_id}) - please try again"
    ELSE IF power_state = <<"o", "f", "f">> THEN "Failed to stop {display_name} ({instance_id}) - please try again"
    ELSE "Failed to restart {display_name} ({instance_id}) - please try again"

\* a variant that answers every failure with a reason about the state
power_failure_blames_state(power_state, current_state) ==
    IF power_state = <<"o", "n">> THEN "{display_name} ({instance_id}) is already running"
    ELSE IF power_state = <<"o", "f", "f">> THEN "{display_name} ({instance_id}) is already stopped"
    ELSE "Cannot restart {display_name} ({instance_id}) - instance is currently stopped"

power_failure(power_state, current_state) ==
    IF power_state = <<"o", "n">> THEN
        IF current_state = "running" THEN "{display_name} ({instance_id}) is already running"
        ELSE IF current_state = "pending" THEN "{display_name} ({instance_id}) is already starting"
        ELSE IF current_state = "stopping"
        THEN "Cannot start {display_name} ({instance_id}) - instance is currently stopping"
        ELSE IF current_state = "stopped"
        THEN "Failed to start {display_name} ({instance_id}) - please try again"
        ELSE "Cannot start {display_name} ({instance_id}) - instance is in an invalid state ({current_state})"
    ELSE IF power_state = <<"o", "f", "f">> THEN
        IF current_state = "stopped" THEN "{display_name} ({instance_id}) is already stopped"
        ELSE IF current_state = "stopping" THEN "{display_name} ({instance_id}) is already stopping"
        ELSE IF current_state = "pending"
        THEN "Cannot stop {display_name} ({instance_id}) - instance is currently starting"
        ELSE IF current_state = "running"
        THEN "Failed to stop {display_name} ({instance_id}) - please try again"
        ELSE "Cannot stop {display_name} ({instance_id}) - instance is in an invalid state ({current_state})"
    ELSE
        IF current_state = "stopped"
        THEN "Cannot restart {display_name} ({instance_id}) - instance is currently stopped"
        ELSE IF current_state = "pending"
        THEN "Cannot restart {display_name} ({instance_id}) - instance is currently starting"
        ELSE IF current_state = "stopping"
        THEN "Cannot restart {display_name} ({instance_id}) - instance is currently stopping"
        ELSE IF current_state = "running"
        THEN "Failed to restart {display_name} ({instance_id}) - please try again"
        ELSE "Cannot restart {display_name} ({instance_id}) - instance is in an invalid state ({current_state})"

\* what handle_ec2_power holds once it has read the state of the instance: the reply
\* when it has already answered, its locals otherwise
PowerLocals(done, reply, instance_id, power_state, current_state) ==
    [done |-> done, reply |-> reply, instance_id |-> instance_id, power_state |-> power_state,
     current_state |-> current_state]

PowerDone(reply) == PowerLocals(TRUE, reply, None, None, "-")

\* a variant that looks at the action word before it resolves the instance
handle_ec2_power_validates_first(w, parts) ==
    Bind(normalize_command(parts[2], ACTION_ALIASES_POWER), LAMBDA power_state :
    IF power_state \notin {<<"o", "n">>, <<"o", "f", "f">>, <<"r", "e", "s", "t", "a", "r", "t">>}
    THEN Ret(w, PowerDone(Reply("Power state must be 'on', 'off', or 'restart'.", None, "-", <<>>))) ELSE
    Bind(resolve_instance_identifier(w, parts[1]), LAMBDA res :
    IF res.ret = None \/ res.ret = <<>> THEN Ret(res.w, PowerDone(Reply(NotFound, None, "-", <<>>))) ELSE
    Bind(can_control_instance_by_id(res.w, res.ret), LAMBDA gate :
    IF ~gate.ret
    THEN Bind(get_instance_name(gate.w, res.ret), LAMBDA name :
         Ret(name.w, PowerDone(Reply(NotControllable, res.ret, "-", <<>>)))) ELSE
    Bind(get_instance_name(gate.w, res.ret), LAMBDA name :
    Bind(get_instance_state(name.w, res.ret), LAMBDA cur :
    IF cur.ret = "None"
    THEN Ret(cur.w, PowerDone(Reply("Failed to determine state of {display_name} ({instance_id}) - please try again",
                                    res.ret, "-", <<>>)))
    ELSE Ret(cur.w, PowerLocals(FALSE, Reply("", res.ret, cur.ret, <<>>), res.ret, power_state, cur.ret)))))))

\* handle_ec2_power with two tokens, up to and including its own read of the state
handle_ec2_power_before_operation(w, parts) ==
    Bind(normalize_command(parts[2], ACTION_ALIASES_POWER), LAMBDA power_state :
    Bind(resolve_instance_identifier(w, parts[1]), LAMBDA res :
    IF res.ret = None \/ res.ret = <<>> THEN Ret(res.w, PowerDone(Reply(NotFound, None, "-", <<>>))) ELSE
    IF power_state \notin {<<"o", "n">>, <<"o", "f", "f">>, <<"r", "e", "s", "t", "a", "r", "t">>}
    THEN Ret(res.w, PowerDone(Reply("Power state must be 'on', 'off', or 'restart'.", res.ret, "-", <<>>))) ELSE
    Bind(can_control_instance_by_id(res.w, res.ret), LAMBDA gate :
    IF ~gate.ret
    THEN Bind(get_instance_name(gate.w, res.ret), LAMBDA name :
         Ret(name.w, PowerDone(Reply(NotControllable, res.ret, "-", <<>>)))) ELSE
    Bind(get_instance_name(gate.w, res.ret), LAMBDA name :
    Bind(get_instance_state(name.w, res.ret), LAMBDA cur :
    IF cur.ret = "None"
    THEN Ret(cur.w, PowerDone(Reply("Failed to determine state of {display_name} ({instance_id}) - please try again",
                                    res.ret, "-", <<>>)))
    ELSE Ret(cur.w, PowerLocals(FALSE, Reply("", res.ret, cur.ret, <<>>), res.ret, power_state, cur.ret)))))))

\* handle_ec2_power with two tokens, from the call of the power function to the reply
handle_ec2_power_operation(w, instance_id, power_state, current_state) ==
    Bind(IF power_state = <<"o", "n">> THEN start_instance(w, instance_id)
         ELSE IF power_state = <<"o", "f", "f">> THEN stop_instance(w, instance_id)
         ELSE restart_instance(w, instance_id), LAMBDA done :
    IF done.ret
    THEN Ret(done.w, Reply("Set {display_name} ({instance_id}) to {power_state}",
                           instance_id, current_state, power_state))
    ELSE Ret(done.w, Reply(power_failure(power_state, current_state), instance_id, current_state, <<>>)))

handle_ec2_power(w, text, user_id) ==
    Bind(split_blank(strip(text)), LAMBDA parts :
    IF Len(parts) = 1 THEN
        Bind(resolve_instance_identifier(w, parts[1]), LAMBDA res :
        IF res.ret = None \/ res.ret = <<>> THEN Ret(res.w, Reply(NotFound, None, "-", <<>>)) ELSE
        Bind(get_instance_state(res.w, res.ret), LAMBDA cur :
        IF cur.ret = "None" THEN Ret(cur.w, Reply(NotFound, None, "-", <<>>)) ELSE
        Bind(get_instance_name(cur.w, res.ret), LAMBDA name :
        Ret(name.w, Reply("Instance {display_name} ({instance_id}) is currently {current_state}",
                          res.ret, cur.ret, <<>>)))))
    ELSE IF Len(parts) = 2 THEN
        Bind(handle_ec2_power_before_operation(w, parts), LAMBDA read :
        IF read.ret.done THEN Ret(read.w, read.ret.reply)
        ELSE handle_ec2_power_operation(read.w, read.ret.instance_id, read.ret.power_state,
                                        read.ret.current_state))
    ELSE Ret(w, Reply("Usage: <instance-id|instance-name> [on|off|restart]", None, "-", <<>>)))

ScheduleUsage ==
    "Usage: <instance-id|instance-name> [<start_time> to <stop_time>] or <instance-id|instance-name> clear"

ScheduleUsageTo ==
    "Usage: <instance-id|instance-name> <start_time> to <stop_time> or <instance-id|instance-name> clear"

\* a variant that lets a schedule of equal times through
handle_ec2_schedule_allows_equal(w, text, user_id) ==
    Bind(split_blank(strip(text)), LAMBDA parts :
    IF Len(parts) = 1 THEN
        Bind(resolve_instance_identifier(w, parts[1]), LAMBDA res :
        IF res.ret = None \/ res.ret = <<>> THEN Ret(res.w, Reply(NotFound, None, "-", <<>>)) ELSE
        Bind(get_schedule(res.w, res.ret), LAMBDA schedule :
        Bind(get_instance_name(schedule.w, res.ret), LAMBDA name :
        Ret(name.w, Reply("Schedule for {display_name} ({instance_id}): {schedule_display}",
                          res.ret, "-", format_schedule_display(schedule.ret))))))
    ELSE IF Len(parts) = 2 THEN
        Bind(resolve_instance_identifier(w, parts[1]), LAMBDA res :
        IF res.ret = None \/ res.ret = <<>> THEN Ret(res.w, Reply(NotFound, None, "-", <<>>)) ELSE
        IF lower(parts[2]) \notin ALIASES_SCHEDULE_CLEAR THEN Ret(res.w, Reply(ScheduleUsage, None, "-", <<>>)) ELSE
        Bind(can_control_instance_by_id(res.w, res.ret), LAMBDA gate :
        IF ~gate.ret
        THEN Bind(get_instance_name(gate.w, res.ret), LAMBDA name :
             Ret(name.w, Reply(NotControllable, res.ret, "-", <<>>))) ELSE
        Bind(delete_schedule(gate.w, res.ret), LAMBDA success :
        Bind(get_instance_name(success.w, res.ret), LAMBDA name :
        IF success.ret
        THEN Ret(name.w, Reply("Schedule cleared for {display_name} ({instance_id})", res.ret, "-", <<>>))
        ELSE Ret(name.w, Reply("Failed to clear schedule for {instance_identifier}", res.ret, "-", <<>>))))))
    ELSE IF Len(parts) >= 4 THEN
        Bind(resolve_instance_identifier(w, parts[1]), LAMBDA res :
        IF res.ret = None \/ res.ret = <<>> THEN Ret(res.w, Reply(NotFound, None, "-", <<>>)) ELSE
        Bind(index(parts, <<"t", "o">>), LAMBDA to_index :
        IF to_index = -1 THEN Ret(res.w, Reply(ScheduleUsageTo, None, "-", <<>>)) ELSE
        IF to_index < 2 \/ to_index >= Len(parts) - 1 THEN Ret(res.w, Reply(ScheduleUsageTo, None, "-", <<>>)) ELSE
        Bind(join(SubSeq(parts, 2, to_index), " "), LAMBDA start_time_str :
        Bind(join(SubSeq(parts, to_index + 2, Len(parts)), " "), LAMBDA stop_time_str :
        Bind(parse_time(start_time_str), LAMBDA start_time :
        Bind(parse_time(stop_time_str), LAMBDA stop_time :
        IF start_time = NoTime
        THEN Ret(res.w, Reply("Invalid start time: {start_time_str}", res.ret, "-", start_time_str)) ELSE
        IF stop_time = NoTime
        THEN Ret(res.w, Reply("Invalid stop time: {stop_time_str}", res.ret, "-", stop_time_str)) ELSE
        IF start_time > stop_time
        THEN Ret(res.w, Reply("Invalid schedule: start time ({start_time_str}) must be before end time ({stop_time_str}). Cross-midnight schedules are not supported.",
                              res.ret, "-", start_time_str \o <<",", " ">> \o stop_time_str)) ELSE
        Bind(get_instance_name(res.w, res.ret), LAMBDA name :
        Bind(can_control_instance_by_id(name.w, res.ret), LAMBDA gate :
        IF ~gate.ret THEN Ret(gate.w, Reply(NotControllable, res.ret, "-", <<>>)) ELSE
        Bind(set_schedule(gate.w, res.ret, start_time, stop_time), LAMBDA success :
        IF success.ret
        THEN Ret(success.w, Reply("Schedule set for {display_name} ({instance_id}): {start_display} to {stop_display}",
                                  res.ret, "-", strftime_12(start_time) \o <<" ", "t", "o", " ">> \o strftime_12(stop_time)))
        ELSE Ret(success.w, Reply("Failed to set schedule for {display_name} ({instance_id})",
                                  res.ret, "-", <<>>)))))))))))
    ELSE Ret(w, Reply(ScheduleUsage, None, "-", <<>>)))

handle_ec2_schedule(w, text, user_id) ==
    Bind(split_blank(strip(text)), LAMBDA parts :
    IF Len(parts) = 1 THEN
        Bind(resolve_instance_identifier(w, parts[1]), LAMBDA res :
        IF res.ret = None \/ res.ret = <<>> THEN Ret(res.w, Reply(NotFound, None, "-", <<>>)) ELSE
        Bind(get_schedule(res.w, res.ret), LAMBDA schedule :
        Bind(get_instance_name(schedule.w, res.ret), LAMBDA name :
        Ret(name.w, Reply("Schedule for {display_name} ({instance_id}): {schedule_display}",
                          res.ret, "-", format_schedule_display(schedule.ret))))))
    ELSE IF Len(parts) = 2 THEN
        Bind(resolve_instance_identifier(w, parts[1]), LAMBDA res :
        IF res.ret = None \/ res.ret = <<>> THEN Ret(res.w, Reply(NotFound, None, "-", <<>>)) ELSE
        IF lower(parts[2]) \notin ALIASES_SCHEDULE_CLEAR THEN Ret(res.w, Reply(ScheduleUsage, None, "-", <<>>)) ELSE
        Bind(can_control_instance_by_id(res.w, res.ret), LAMBDA gate :
        IF ~gate.ret
        THEN Bind(get_instance_name(gate.w, res.ret), LAMBDA name :
             Ret(name.w, Reply(NotControllable, res.ret, "-", <<>>))) ELSE
        Bind(delete_schedule(gate.w, res.ret), LAMBDA success :
        Bind(get_instance_name(success.w, res.ret), LAMBDA name :
        IF success.ret
        THEN Ret(name.w, Reply("Schedule cleared for {display_name} ({instance_id})", res.ret, "-", <<>>))
        ELSE Ret(name.w, Reply("Failed to clear schedule for {instance_identifier}", res.ret, "-", <<>>))))))
    ELSE IF Len(parts) >= 4 THEN
        Bind(resolve_instance_identifier(w, parts[1]), LAMBDA res :
        IF res.ret = None \/ res.ret = <<>> THEN Ret(res.w, Reply(NotFound, None, "-", <<>>)) ELSE
        Bind(index(parts, <<"t", "o">>), LAMBDA to_index :
        IF to_index = -1 THEN Ret(res.w, Reply(ScheduleUsageTo, None, "-", <<>>)) ELSE
        IF to_index < 2 \/ to_index >= Len(parts) - 1 THEN Ret(res.w, Reply(ScheduleUsageTo, None, "-", <<>>)) ELSE
        Bind(join(SubSeq(parts, 2, to_index), " "), LAMBDA start_time_str :
        Bind(join(SubSeq(parts, to_index + 2, Len(parts)), " "), LAMBDA stop_time_str :
        Bind(parse_time(start_time_str), LAMBDA start_time :
        Bind(parse_time(stop_time_str), LAMBDA stop_time :
        IF start_time = NoTime
        THEN Ret(res.w, Reply("Invalid start time: {start_time_str}", res.ret, "-", start_time_str)) ELSE
        IF stop_time = NoTime
        THEN Ret(res.w, Reply("Invalid stop time: {stop_time_str}", res.ret, "-", stop_time_str)) ELSE
        IF start_time >= stop_time
        THEN Ret(res.w, Reply("Invalid schedule: start time ({start_time_str}) must be before end time ({stop_time_str}). Cross-midnight schedules are not supported.",
                              res.ret, "-", start_time_str \o <<",", " ">> \o stop_time_str)) ELSE
        Bind(get_instance_name(res.w, res.ret), LAMBDA name :
        Bind(can_control_instance_by_id(name.w, res.ret), LAMBDA gate :
        IF ~gate.ret THEN Ret(gate.w, Reply(NotControllable, res.ret, "-", <<>>)) ELSE
        Bind(set_schedule(gate.w, res.ret, start_time, stop_time), LAMBDA success :
        IF success.ret
        THEN Ret(success.w, Reply("Schedule set for {display_name} ({instance_id}): {start_display} to {stop_display}",
                                  res.ret, "-", strftime_12(start_time) \o <<" ", "t", "o", " ">> \o strftime_12(stop_time)))
        ELSE Ret(success.w, Reply("Failed to set schedule for {display_name} ({instance_id})",
                                  res.ret, "-", <<>>)))))))))))
    ELSE Ret(w, Reply(ScheduleUsage, None, "-", <<>>)))

handle_ec2_disable_schedule(w, text, user_id) ==
    Bind(split_blank(strip(text)), LAMBDA parts :
    IF Len(parts) = 1 THEN
        Bind(resolve_instance_identifier(w, parts[1]), LAMBDA res :
        IF res.ret = None \/ res.ret = <<>> THEN Ret(res.w, Reply(NotFound, None, "-", <<>>)) ELSE
        Bind(get_disable_schedule(res.w, res.ret), LAMBDA disable_datetime :
        Bind(get_instance_name(disable_datetime.w, res.ret), LAMBDA name :
        Ret(name.w, Reply("Scheduler for {display_name} ({instance_id}): {disable_display}",
                          res.ret, "-", format_disable_schedule_display(name.w, disable_datetime.ret))))))
    ELSE IF Len(parts) >= 2 THEN
        Bind(resolve_instance_identifier(w, parts[1]), LAMBDA res :
        IF res.ret = None \/ res.ret = <<>> THEN Ret(res.w, Reply(NotFound, None, "-", <<>>)) ELSE
        Bind(join(Tail(parts), " "), LAMBDA command :
        IF lower(command) \in ALIASES_DISABLE_CANCEL THEN
            Bind(can_control_instance_by_id(res.w, res.ret), LAMBDA gate :
            IF ~gate.ret
            THEN Bind(get_instance_name(gate.w, res.ret), LAMBDA name :
                 Ret(name.w, Reply(NotControllable, res.ret, "-", <<>>))) ELSE
            Bind(delete_disable_schedule(gate.w, res.ret), LAMBDA success :
            Bind(get_instance_name(success.w, res.ret), LAMBDA name :
            IF success.ret
            THEN Ret(name.w, Reply("Unpaused scheduler service for {display_name} ({instance_id})",
                                   res.ret, "-", <<>>))
            ELSE Ret(name.w, Reply("Failed to unpause scheduler for {instance_identifier}",
                                   res.ret, "-", <<>>)))))
        ELSE
            Bind(parse_hours(command), LAMBDA hours :
            IF hours = NoHours
            THEN Ret(res.w, Reply("Invalid hours format: {command}. Use format like '2h', '24h', etc. (minimum 1h).",
                                  res.ret, "-", command)) ELSE
            Bind(can_control_instance_by_id(res.w, res.ret), LAMBDA gate :
            IF ~gate.ret
            THEN Bind(get_instance_name(gate.w, res.ret), LAMBDA name :
                 Ret(name.w, Reply(NotControllable, res.ret, "-", <<>>))) ELSE
            Bind(set_disable_schedule(gate.w, res.ret, hours), LAMBDA success :
            Bind(get_instance_name(success.w, res.ret), LAMBDA name :
            IF success.ret
            THEN Ret(name.w, Reply("Paused scheduler for {display_name} ({instance_id}) for {hours} hours",
                                   res.ret, "-", ToDigits(hours)))
            ELSE Ret(name.w, Reply("Failed to pause scheduler for {display_name} ({instance_id})",
                                   res.ret, "-", <<>>))))))))
    ELSE Ret(w, Reply("Usage: <instance-id|instance-name> [<hours>] or <instance-id|instance-name> cancel",
                      None, "-", <<>>)))

\* config.py: the administrators, which no handler consults
ADMIN_USERS == {<<"U", "0", "8", "Q", "Y", "U", "6", "A", "X", "0", "V">>, <<"U", "0", "7", "U", "3", "H", "0", "1", "W", "Q", "5">>, <<"U", "0", "7", "5", "X", "S", "8", "B", "D", "6", "K">>}

\* a variant that answers the administrators only
handle_fuzzy_search_admins_only(w, text, user_id) ==
    IF user_id \notin ADMIN_USERS THEN Ret(w, Reply("Access denied", None, "-", <<>>)) ELSE
    Bind(strip(text), LAMBDA search_term :
    IF search_term = <<>>
    THEN Ret(w, Reply("Please provide a search term. Usage: /search <instance-name-or-id>", None, "-", <<>>)) ELSE
    Bind(fuzzy_search_instances(w, search_term), LAMBDA matching_instances :
    IF matching_instances.ret = <<>>
    THEN Ret(matching_instances.w,
             Reply("No controllable instances found matching '{text}'. Add the EC2ControlsEnabled tag with a truthy value to instances you want to control.",
                   None, "-", <<>>))
    ELSE Ret(matching_instances.w,
             Reply("Found {len(matching_instances)} controllable instance(s) matching '{text}':",
                   None, "-", matching_instances.ret))))

handle_fuzzy_search(w, text, user_id) ==
    Bind(strip(text), LAMBDA search_term :
    IF search_term = <<>>
    THEN Ret(w, Reply("Please provide a search term. Usage: /search <instance-name-or-id>", None, "-", <<>>)) ELSE
    Bind(fuzzy_search_instances(w, search_term), LAMBDA matching_instances :
    IF matching_instances.ret = <<>>
    THEN Ret(matching_instances.w,
             Reply("No controllable instances found matching '{text}'. Add the EC2ControlsEnabled tag with a truthy value to instances you want to control.",
                   None, "-", <<>>))
    ELSE Ret(matching_instances.w,
             Reply("Found {len(matching_instances)} controllable instance(s) matching '{text}':",
                   None, "-", matching_instances.ret))))

StakeholderUsage == "Usage: <instance-id|instance-name> [claim|remove|show]"

\* handle_ec2_stakeholder without its gate check
claim_reply(result) ==
    IF result[1] THEN
        IF result[2] = "added" THEN "You are now a stakeholder for {display_name} ({instance_id})"
        ELSE IF result[2] = "already_stakeholder"
        THEN "You are already a stakeholder for {display_name} ({instance_id})"
        ELSE "Failed to claim {display_name} ({instance_id}) - please try again"
    ELSE IF result[2] = "max_limit_reached"
         THEN "Max stakeholders (10) reached for {display_name} ({instance_id})"
         ELSE "Failed to claim {display_name} ({instance_id}) - please try again"

remove_reply(result) ==
    IF result[1] THEN
        IF result[2] = "removed" THEN "You are no longer a stakeholder for {display_name} ({instance_id})"
        ELSE IF result[2] = "removed_and_deleted_tag"
        THEN "You are no longer a stakeholder for {display_name} ({instance_id})"
        ELSE IF result[2] = "not_stakeholder"
        THEN "You are not a stakeholder for {display_name} ({instance_id})"
        ELSE "Failed to remove stakeholder status for {display_name} ({instance_id}) - please try again"
    ELSE "Failed to remove stakeholder status for {display_name} ({instance_id}) - please try again"

\* handle_ec2_stakeholder with its gate check left out
handle_ec2_stakeholder_ungated(w, text, user_id) ==
    Bind(split_blank(strip(text)), LAMBDA parts :
    IF Len(parts) = 0 THEN Ret(w, Reply(StakeholderUsage, None, "-", <<>>)) ELSE
    IF Len(parts) < 1 \/ Len(parts) > 2 THEN Ret(w, Reply(StakeholderUsage, None, "-", <<>>)) ELSE
    Bind(normalize_command(IF Len(parts) = 2 THEN lower(parts[2]) ELSE <<"c", "l", "a", "i", "m">>, ACTION_ALIASES_STAKEHOLDER),
         LAMBDA action :
    IF action \notin {<<"c", "l", "a", "i", "m">>, <<"r", "e", "m", "o", "v", "e">>, <<"c", "h", "e", "c", "k">>}
    THEN Ret(w, Reply("Action must be 'claim', 'remove', or 'check'", None, "-", <<>>)) ELSE
    Bind(resolve_instance_identifier(w, parts[1]), LAMBDA res :
    IF res.ret = None \/ res.ret = <<>> THEN Ret(res.w, Reply(NotFound, None, "-", <<>>)) ELSE
    Bind(get_instance_name(res.w, res.ret), LAMBDA name :
    IF action = <<"c", "l", "a", "i", "m">> THEN
        Bind(add_stakeholder(name.w, res.ret, user_id), LAMBDA done :
        Ret(done.w, Reply(claim_reply(done.ret), res.ret, "-", <<>>)))
    ELSE IF action = <<"r", "e", "m", "o", "v", "e">> THEN
        Bind(remove_stakeholder(name.w, res.ret, user_id), LAMBDA done :
        Ret(done.w, Reply(remove_reply(done.ret), res.ret, "-", <<>>)))
    ELSE
        Bind(is_user_stakeholder(name.w, res.ret, user_id), LAMBDA is_stakeholder :
        IF is_stakeholder.ret
        THEN Ret(is_stakeholder.w, Reply("You are a stakeholder for {display_name} ({instance_id})",
                                         res.ret, "-", <<>>))
        ELSE Ret(is_stakeholder.w, Reply("You are not a stakeholder for {display_name} ({instance_id})",
                                         res.ret, "-", <<>>)))))))

handle_ec2_stakeholder(w, text, user_id) ==
    Bind(split_blank(strip(text)), LAMBDA parts :
    IF Len(parts) = 0 THEN Ret(w, Reply(StakeholderUsage, None, "-", <<>>)) ELSE
    IF Len(parts) < 1 \/ Len(parts) > 2 THEN Ret(w, Reply(StakeholderUsage, None, "-", <<>>)) ELSE
    Bind(normalize_command(IF Len(parts) = 2 THEN lower(parts[2]) ELSE <<"c", "l", "a", "i", "m">>, ACTION_ALIASES_STAKEHOLDER),
         LAMBDA action :
    IF action \notin {<<"c", "l", "a", "i", "m">>, <<"r", "e", "m", "o", "v", "e">>, <<"c", "h", "e", "c", "k">>}
    THEN Ret(w, Reply("Action must be 'claim', 'remove', or 'check'", None, "-", <<>>)) ELSE
    Bind(resolve_instance_identifier(w, parts[1]), LAMBDA res :
    IF res.ret = None \/ res.ret = <<>> THEN Ret(res.w, Reply(NotFound, None, "-", <<>>)) ELSE
    Bind(can_control_instance_by_id(res.w, res.ret), LAMBDA gate :
    IF ~gate.ret
    THEN Bind(get_instance_name(gate.w, res.ret), LAMBDA name :
         Ret(name.w, Reply(NotControllable, res.ret, "-", <<>>))) ELSE
    Bind(get_instance_name(gate.w, res.ret), LAMBDA name :
    IF action = <<"c", "l", "a", "i", "m">> THEN
        Bind(add_stakeholder(name.w, res.ret, user_id), LAMBDA done :
        Ret(done.w, Reply(claim_reply(done.ret), res.ret, "-", <<>>)))
    ELSE IF action = <<"r", "e", "m", "o", "v", "e">> THEN
        Bind(remove_stakeholder(name.w, res.ret, user_id), LAMBDA done :
        Ret(done.w, Reply(remove_reply(done.ret), res.ret, "-", <<>>)))
    ELSE
        Bind(is_user_stakeholder(name.w, res.ret, user_id), LAMBDA is_stakeholder :
        IF is_stakeholder.ret
        THEN Ret(is_stakeholder.w, Reply("You are a stakeholder for {display_name} ({instance_id})",
                                         res.ret, "-", <<>>))
        ELSE Ret(is_stakeholder.w, Reply("You are not a stakeholder for {display_name} ({instance_id})",
                                         res.ret, "-", <<>>))))))))

(***************************************************************************)
(* Inputs of the model.                                                    *)
(***************************************************************************)
\* the sets of positions, among the first n provider calls of an operation, that raise
FaultSets(n) == {F \in SUBSET (1..n) : Cardinality(F) <= MaxFaults}

NameDb == <<"d", "b", "-", "1">>
NameWeb == <<"w", "e", "b">>
\* a Name tag that starts like an instance ID
NameIProd == <<"i", "-", "p", "r", "o", "d">>

\* values of the EC2ControlsEnabled tag; None is the tag not being set
CtlValues == {None, <<"t", "r", "u", "e">>, <<"T", "r", "u", "e">>, <<"1">>, <<"y", "e", "s">>, <<"e", "n", "a", "b", "l", "e", "d">>, <<"f", "a", "l", "s", "e">>, <<"F", "A", "L", "S", "E">>, <<"F", "a", "l", "s", "e">>,
              <<"0">>, <<"n", "o">>, <<"N", "o">>, <<"d", "i", "s", "a", "b", "l", "e", "d">>, <<"D", "i", "s", "a", "b", "l", "e", "d">>, <<"o", "f", "f">>, <<"O", "F", "F">>, <<>>, <<" ", "f", "a", "l", "s", "e">>,
              <<"f", "a", "l", "s", "e", "y">>, <<"0", "0">>, <<"2">>}

\* identifier tokens a command may carry
Tokens == {ID1, ID2, ID3, IDGone, NameDb, NameWeb, NameIProd, <<"I", "-", "0", "0", "0", "0", "0", "0", "0", "1">>, <<"i", "-", "0", "0", "0", "0", "0", "0", "0", "G">>,
           <<"n", "o", "s", "u", "c", "h">>}

\* raised: an exception left the operation
Record(op, arg, r) == [op |-> op, arg |-> arg, ret |-> r.ret, calls |-> r.w.calls, raised |-> r.w.raising]

NoRecord == [op |-> "init", arg |-> None, ret |-> None, calls |-> <<>>, raised |-> FALSE]

\* the lifecycle moves on at the provider: pending -> running, stopping -> stopped
Progress ==
    /\ \E id \in Ids :
          /\ state[id] \in {"pending", "stopping"}
          /\ state' = [state EXCEPT ![id] = IF @ = "pending" THEN "running" ELSE "stopped"]
    /\ last' = NoRecord
    /\ UNCHANGED <<tags, now, ops, inflight>>

(***************************************************************************)
(* SpecFn: the client functions called directly on a fleet drawn from the  *)
(* lifecycle states, gate tag values and names below.                      *)
(***************************************************************************)
FleetTags(name, ctl) == [NoTags EXCEPT !["Name"] = name, !["EC2ControlsEnabled"] = ctl]

\* the second and third instance: <<state of ID2, gate tag of ID2, name of ID3, gate tag of ID3>>
Neighbours == {<<"running", <<"t", "r", "u", "e">>, NameWeb, <<"1">>>>,
               <<"terminated", <<"t", "r", "u", "e">>, NameWeb, <<"1">>>>,
               <<"running", None, NameIProd, <<"1">>>>,
               <<"running", <<"t", "r", "u", "e">>, NameWeb, <<"o", "f", "f">>>>}

InitFn ==
    /\ \E s1 \in AllLifecycle, c1 \in CtlValues, nb \in Neighbours :
          /\ s1 = "running" \/ c1 \in {None, <<"t", "r", "u", "e">>}
          /\ state = [id \in Ids |-> IF id = ID1 THEN s1 ELSE IF id = ID2 THEN nb[1] ELSE "stopped"]
          /\ tags = [id \in Ids |-> IF id = ID1 THEN FleetTags(NameDb, c1)
                                    ELSE IF id = ID2 THEN FleetTags(NameWeb, nb[2])
                                    ELSE FleetTags(nb[3], nb[4])]
    /\ now = 0
    /\ ops = 0
    /\ last = NoRecord
    /\ inflight = <<>>

Apply(op, arg, r) ==
    /\ state' = r.w.state
    /\ tags' = r.w.tags
    /\ now' = r.w.now
    /\ last' = Record(op, arg, r)
    /\ UNCHANGED <<ops, inflight>>

StartOp == \E id \in {ID1, IDGone}, F \in FaultSets(3) :
    Apply("start_instance", id, start_instance(World(F), id))

StopOp == \E id \in {ID1, IDGone}, F \in FaultSets(3) :
    Apply("stop_instance", id, stop_instance(World(F), id))

RestartOp == \E id \in {ID1, IDGone}, F \in FaultSets(3) :
    Apply("restart_instance", id, restart_instance(World(F), id))

GateOp == \E id \in Ids \cup {IDGone}, F \in FaultSets(1) :
    Apply("can_control_instance_by_id", id, can_control_instance_by_id(World(F), id))

ResolveOp == \E t \in Tokens, F \in FaultSets(1) :
    Apply("resolve_instance_identifier", t, resolve_instance_identifier(World(F), t))

NextFn == StartOp \/ StopOp \/ RestartOp \/ GateOp \/ ResolveOp \/ Progress

SpecFn == InitFn /\ [][NextFn]_vars

(***************************************************************************)
(* Reading the record of an operation.                                     *)
(***************************************************************************)
\* the positions of the record at which op was asked of the provider for arg
Asked(calls, op, arg) == {k \in 1..Len(calls) : calls[k].op = op /\ calls[k].arg = arg}

\* the positions of the gate's results
GateNotes(calls) == {k \in 1..Len(calls) : calls[k].op = "can_control_instance_by_id"}

\* the positions of the mutating provider calls
Mutations(calls) == {k \in 1..Len(calls) : calls[k].op \in MutatingOps}

Min(S) == CHOOSE k \in S : \A j \in S : k <= j

IsPowerOp(r) == r.op \in {"start_instance", "stop_instance", "restart_instance"}

ProviderCallOf(op) ==
    CASE op = "start_instance" -> "start_instances"
      [] op = "stop_instance" -> "stop_instances"
      [] op = "restart_instance" -> "reboot_instances"

LegalFrom(op) ==
    CASE op = "start_instance" -> "stopped"
      [] op = "stop_instance" -> "running"
      [] op = "restart_instance" -> "running"

\* the gate result a directly called power function saw
OwnGate(r) == \E k \in GateNotes(r.calls) : r.calls[k].ok

\* the lifecycle state a directly called power function read after its gate
OwnStateRead(r) ==
    IF GateNotes(r.calls) = {} \/ Len(r.calls) <= Min(GateNotes(r.calls)) THEN "None"
    ELSE r.calls[Min(GateNotes(r.calls)) + 1].val

(***************************************************************************)
(* C2: start_instance, stop_instance and restart_instance issue their      *)
(* provider call exactly when their own gate check is true and their own   *)
(* state read is the one legal state (stopped for start, running for stop  *)
(* and restart); from the other three of pending, running, stopping,       *)
(* stopped they return False with no provider call; they return True only  *)
(* when that provider call was issued and did not raise.                   *)
(***************************************************************************)
C2_PowerPrecondition ==
    IsPowerOp(last) =>
        LET issued == Asked(last.calls, ProviderCallOf(last.op), last.arg)
        IN  /\ (issued # {}) <=> (OwnGate(last) /\ OwnStateRead(last) = LegalFrom(last.op))
            /\ Cardinality(issued) <= 1
            /\ \A s \in Lifecycle \ {LegalFrom(last.op)} :
                  (OwnGate(last) /\ OwnStateRead(last) = s) => (last.ret = FALSE /\ issued = {})
            /\ (last.ret = TRUE) => (\E k \in issued : last.calls[k].ok)

C2_Witness ==
    /\ last.op = "stop_instance"
    /\ last.ret = TRUE
    /\ Asked(last.calls, "stop_instances", last.arg) # {}
    /\ state[last.arg] = "stopping"

(***************************************************************************)
(* C4: a name is resolved to an instance only when exactly one instance in *)
(* one of the four lifecycle states carries that Name tag and passes the   *)
(* gate; with no such instance or with several the result is None, and     *)
(* with exactly one (and the lookup answered) it is that instance's ID.    *)
(***************************************************************************)
NameMatches(name) ==
    {id \in Ids : /\ state[id] \in Lifecycle
                  /\ tags[id]["Name"] = name
                  /\ can_control_instance([found |-> TRUE, InstanceId |-> id,
                                           State |-> state[id], Tags |-> tags[id]])}

IsNameLookup(r) == r.op = "resolve_instance_identifier" /\ ~startswith(r.arg, <<"i", "-">>)

C4_NoGuessAmongMatches ==
    IsNameLookup(last) =>
        LET m == NameMatches(last.arg)
        IN  /\ Cardinality(m) # 1 => last.ret = None
            /\ (Cardinality(m) = 1 /\ last.calls[1].ok) => last.ret \in m
            /\ last.ret # None => (m = {last.ret})

C4_Witness ==
    /\ IsNameLookup(last)
    /\ last.calls[1].ok
    /\ Cardinality(NameMatches(last.arg)) >= 2
    /\ last.ret = None

(***************************************************************************)
(* C5: a token of the instance-ID shape is returned unchanged by           *)
(* resolve_instance_identifier, which asks nothing of the provider.        *)
(***************************************************************************)
C5_IdPassesThrough ==
    (last.op = "resolve_instance_identifier" /\ is_valid_instance_id(last.arg)) =>
        (last.ret = last.arg /\ last.calls = <<>>)

C5_Witness ==
    /\ last.op = "resolve_instance_identifier"
    /\ last.arg = IDGone
    /\ last.ret = IDGone
    /\ last.calls = <<>>

(***************************************************************************)
(* C6: a token that is not of the instance-ID shape (i- and 8 or 17        *)
(* lowercase hex characters) is looked up as a name and is never returned  *)
(* unchanged.                                                              *)
(***************************************************************************)
C6_NonIdIsLookedUp ==
    (last.op = "resolve_instance_identifier" /\ ~is_valid_instance_id(last.arg)) =>
        /\ Asked(last.calls, "describe_instances_by_name", last.arg) # {}
        /\ last.ret # last.arg

(***************************************************************************)
(* C7: the gate is false when the EC2ControlsEnabled tag is absent, false  *)
(* when its value equals false, 0, no, disabled or off in any letter case, *)
(* and true for every other non-empty value.                               *)
(***************************************************************************)
SameIgnoringCase(a, b) ==
    /\ Len(a) = Len(b)
    /\ \A k \in 1..Len(a) :
          \/ a[k] = b[k]
          \/ \E j \in 1..Len(Upper) : {a[k], b[k]} = {Upper[j], LowerOf[j]}

C7_Blocklist == {<<"f", "a", "l", "s", "e">>, <<"0">>, <<"n", "o">>, <<"d", "i", "s", "a", "b", "l", "e", "d">>, <<"o", "f", "f">>}

C7_GateTruthTable ==
    (last.op = "can_control_instance_by_id" /\ last.calls[1].ok) =>
        LET v == tags[last.arg]["EC2ControlsEnabled"]
            falsy == \E f \in C7_Blocklist : SameIgnoringCase(v, f)
        IN  /\ v = None => last.ret = FALSE
            /\ (v # None /\ falsy) => last.ret = FALSE
            /\ (v # None /\ v # <<>> /\ ~falsy) => last.ret = TRUE

C7_Witness ==
    /\ last.op = "can_control_instance_by_id"
    /\ last.calls[1].ok
    /\ tags[last.arg]["EC2ControlsEnabled"] = <<"F", "A", "L", "S", "E">>
    /\ last.ret = FALSE

(***************************************************************************)
(* SpecStake, SpecStake0: add_stakeholder and remove_stakeholder called    *)
(* one after the other on instance ID1, by well-formed callers and by the  *)
(* caller strings the handler can also pass: the empty string of a request *)
(* without user_id, a string holding a comma, a string with a leading      *)
(* blank. SpecStake0 starts with no Stakeholders tag; SpecStake also       *)
(* starts from lists of one, two, nine and ten members.                    *)
(***************************************************************************)
Callers == {<<"a">>, <<"b">>, <<"j">>, <<"k">>, <<>>, <<"a", ",", "b">>, <<" ", "a">>}

Nine == <<"a", ",", "b", ",", "c", ",", "d", ",", "e", ",", "f", ",", "g", ",", "h", ",", "i">>
Ten == <<"a", ",", "b", ",", "c", ",", "d", ",", "e", ",", "f", ",", "g", ",", "h", ",", "i", ",", "j">>

StakeholderSamples == {None, <<"a">>, <<"a", ",", "b">>, Nine, Ten}

StakeFleet(v) ==
    /\ state = [id \in Ids |-> "running"]
    /\ tags = [id \in Ids |-> [FleetTags(NameDb, <<"t", "r", "u", "e">>) EXCEPT !["Stakeholders"] = IF id = ID1 THEN v ELSE None]]
    /\ now = 0
    /\ ops = 0
    /\ last = NoRecord
    /\ inflight = <<>>

InitStake0 == StakeFleet(None)

InitStake == \E v \in StakeholderSamples : StakeFleet(v)

ApplyCounted(op, arg, r) ==
    /\ ops < MaxOps
    /\ state' = r.w.state
    /\ tags' = r.w.tags
    /\ now' = r.w.now
    /\ last' = Record(op, arg, r)
    /\ ops' = ops + 1
    /\ UNCHANGED inflight

AddOp == \E u \in Callers, F \in FaultSets(2) :
    ApplyCounted("add_stakeholder", u, add_stakeholder(World(F), ID1, u))

RemoveOp == \E u \in Callers, F \in FaultSets(2) :
    ApplyCounted("remove_stakeholder", u, remove_stakeholder(World(F), ID1, u))

NextStake == AddOp \/ RemoveOp

SpecStake0 == InitStake0 /\ [][NextStake]_vars

SpecStake == InitStake /\ [][NextStake]_vars

\* the members stored for ID1
Stored == current_stakeholders(tags[ID1]["Stakeholders"])

NoDuplicates(list) == \A i, j \in 1..Len(list) : list[i] = list[j] => i = j

(***************************************************************************)
(* C8: from no Stakeholders tag, after any add_stakeholder and             *)
(* remove_stakeholder calls the stored list has no duplicate, at most 10   *)
(* members, and the tag is never present with an empty member list. (The   *)
(* order of the members is what C9 and C10 state of each call.)            *)
(***************************************************************************)
C8_StakeholderInvariant ==
    /\ NoDuplicates(Stored)
    /\ Len(Stored) <= 10
    /\ tags[ID1]["Stakeholders"] # None => Stored # <<>>

(***************************************************************************)
(* C9: add_stakeholder, when its read of the tag is answered: a caller in  *)
(* the list gets already_stakeholder with no write, even at 10 members; a  *)
(* caller not in a list of 10 or more gets max_limit_reached with no       *)
(* create_tags; otherwise one create_tags writes the list with the caller  *)
(* appended at the end, and the result is added (failed when the write     *)
(* raises, the tag staying as it was).                                     *)
(***************************************************************************)
IsStep(op) == ops' = ops + 1 /\ last'.op = op

Writes(calls) == {k \in 1..Len(calls) : calls[k].op \in {"create_tags", "delete_tags"}}

C9_AddStep ==
    (IsStep("add_stakeholder") /\ last'.calls[1].ok) =>
        LET user == last'.arg
            cur == current_stakeholders(tags[ID1]["Stakeholders"])
            calls == last'.calls
        IN  /\ In(user, cur) =>
                 (last'.ret = <<TRUE, "already_stakeholder">> /\ Writes(calls) = {} /\ tags' = tags)
            /\ (~In(user, cur) /\ Len(cur) >= 10) =>
                 (last'.ret = <<FALSE, "max_limit_reached">> /\ Writes(calls) = {} /\ tags' = tags)
            /\ (~In(user, cur) /\ Len(cur) < 10) =>
                 /\ Len(calls) = 2 /\ calls[2].op = "create_tags" /\ calls[2].arg = ID1
                 /\ calls[2].ok =>
                       /\ last'.ret = <<TRUE, "added">>
                       /\ tags'[ID1]["Stakeholders"] = join(cur \o <<user>>, ",")
                 /\ ~calls[2].ok => (last'.ret = <<FALSE, "failed">> /\ tags' = tags)

C9_AddOutcomes == [][C9_AddStep]_vars

C9_Witness ==
    /\ last.op = "add_stakeholder"
    /\ last.ret = <<TRUE, "already_stakeholder">>
    /\ last.calls[1].ok
    /\ Len(Stored) = 10

(***************************************************************************)
(* C10: remove_stakeholder, when its read of the tag is answered: a caller *)
(* not in the list gets not_stakeholder with no write and no delete;       *)
(* removing the sole member issues delete_tags and no create_tags, reports *)
(* removed_and_deleted_tag, and a following read finds no tag; removing    *)
(* one of several writes the others in their previous order and reports    *)
(* removed.                                                                *)
(***************************************************************************)
C10_RemoveStep ==
    (IsStep("remove_stakeholder") /\ last'.calls[1].ok) =>
        LET user == last'.arg
            cur == current_stakeholders(tags[ID1]["Stakeholders"])
            rest == SelectSeq(cur, LAMBDA m : m # user)
            calls == last'.calls
            after == [state |-> state', tags |-> tags', now |-> now', calls |-> <<>>, n |-> 0, F |-> {}]
        IN  /\ ~In(user, cur) =>
                 (last'.ret = <<TRUE, "not_stakeholder">> /\ Writes(calls) = {} /\ tags' = tags)
            /\ (In(user, cur) /\ rest = <<>>) =>
                 /\ Len(calls) = 2 /\ calls[2].op = "delete_tags" /\ calls[2].arg = ID1
                 /\ calls[2].ok =>
                       /\ last'.ret = <<TRUE, "removed_and_deleted_tag">>
                       /\ tags'[ID1]["Stakeholders"] = None
                       /\ get_stakeholders_tag(after, ID1).ret = None
            /\ (In(user, cur) /\ rest # <<>>) =>
                 /\ Len(calls) = 2 /\ calls[2].op = "create_tags" /\ calls[2].arg = ID1
                 /\ calls[2].ok =>
                       /\ last'.ret = <<TRUE, "removed">>
                       /\ current_stakeholders(tags'[ID1]["Stakeholders"]) = rest
                       /\ tags'[ID1]["Stakeholders"] # <<>>
            /\ (In(user, cur) /\ ~calls[2].ok) => (last'.ret = <<FALSE, "failed">> /\ tags' = tags)

C10_RemoveOutcomes == [][C10_RemoveStep]_vars

C10_Witness ==
    /\ last.op = "remove_stakeholder"
    /\ last.ret = <<TRUE, "removed_and_deleted_tag">>
    /\ Asked(last.calls, "delete_tags", ID1) # {}
    /\ tags[ID1]["Stakeholders"] = None

(***************************************************************************)
(* Spec: the four command handlers, one request at a time, on a fleet of a *)
(* controllable instance ID1 (db-1), an instance ID2 (web) whose gate tag  *)
(* is off, and a terminated instance ID3. A handler runs when no reply is  *)
(* pending; Respond delivers the reply. Between requests the provider      *)
(* moves the lifecycle on.                                                 *)
(***************************************************************************)
NameOld == <<"o", "l", "d">>

\* identifier tokens of the commands: by ID, by name, unknown
CmdTokens == {ID1, ID2, NameDb, <<"n", "o", "s", "u", "c", "h">>}

\* what follows the token: every form for ID1, the changing forms for the others
Texts(all, changing) ==
    {<<>>} \cup CmdTokens
        \cup {ID1 \o <<" ">> \o x : x \in all}
        \cup {t \o <<" ">> \o x : t \in CmdTokens \ {ID1}, x \in changing}

\* the forms a handler refuses for their arguments, sent for the instance whose gate is off
Refused(forms) == {ID2 \o <<" ">> \o x : x \in forms}

PowerTexts ==
    Texts({<<"o", "n">>, <<"O", "F", "F">>, <<"r", "e", "b", "o", "o", "t">>, <<"b", "o", "g", "u", "s">>, <<"o", "n", " ", "n", "o", "w">>}, {<<"o", "n">>}) \cup {ID3, ID3 \o <<" ", "o", "n">>}
        \cup Refused({<<"b", "o", "g", "u", "s">>})

ScheduleTexts ==
    Texts({<<"c", "l", "e", "a", "r">>, <<"b", "o", "g", "u", "s">>, <<"9", "a", "m", " ", "t", "o", " ", "5", "p", "m">>, <<"1", "2", "a", "m", " ", "t", "o", " ", "1", "2", ":", "3", "0">>, <<"5", "p", "m", " ", "t", "o", " ", "9", "a", "m">>, <<"b", "o", "g", "u", "s", " ", "t", "o", " ", "5", "p", "m">>,
           <<"9", "a", "m", " ", "t", "o", " ", "2", "5", ":", "0", "0">>, <<"9", "a", "m", " ", "u", "n", "t", "i", "l", " ", "5", "p", "m">>, <<"9", "a", "m", " ", "5", "p", "m">>, <<"t", "o", " ", "9", "a", "m", " ", "5", "p", "m">>, <<"9", "a", "m", " ", "t", "o", " ", "9", "a", "m">>,
           <<"9", ":", "0", "0", ":", "1", "0", " ", "t", "o", " ", "9", ":", "0", "0", ":", "5", "0">>},
          {<<"c", "l", "e", "a", "r">>, <<"9", "a", "m", " ", "t", "o", " ", "5", "p", "m">>})
        \cup Refused({<<"5", "p", "m", " ", "t", "o", " ", "9", "a", "m">>, <<"9", "a", "m", " ", "t", "o", " ", "9", "a", "m">>, <<"b", "o", "g", "u", "s", " ", "t", "o", " ", "5", "p", "m">>, <<"9", "a", "m", " ", "t", "o", " ", "b", "o", "g", "u", "s">>})

DisableTexts ==
    Texts({<<"c", "a", "n", "c", "e", "l">>, <<"1", "h">>, <<"2", "H">>, <<"0", "h">>, <<"b", "o", "g", "u", "s">>}, {<<"c", "a", "n", "c", "e", "l">>, <<"1", "h">>}) \cup Refused({<<"0", "h">>, <<"b", "o", "g", "u", "s">>})

StakeholderTexts ==
    Texts({<<"c", "l", "a", "i", "m">>, <<"R", "e", "m", "o", "v", "e">>, <<"s", "h", "o", "w">>, <<"b", "o", "g", "u", "s">>, <<"c", "l", "a", "i", "m", " ", "n", "o", "w">>}, {<<"c", "l", "a", "i", "m">>, <<"R", "e", "m", "o", "v", "e">>})
        \cup Refused({<<"b", "o", "g", "u", "s">>})

SearchTexts == {<<>>, <<" ">>, <<"d", "b">>, <<"D", "B", "-", "1">>, <<"i", "-">>, <<"0", "0", "0", "0", "0", "0", "0">>, ID2, <<"o">>, <<"n", "o", "s", "u", "c", "h">>}

\* a command meets at most one failing provider call among its first n
OneFault(n) == {{}} \cup {{k} : k \in 1..n}

\* user_id of the request; the empty string when the request carries none
Users == {<<"a">>, <<>>}

Handlers == {"handle_ec2_power", "handle_ec2_schedule", "handle_ec2_disable_schedule",
             "handle_ec2_stakeholder"}

Init ==
    /\ state = [id \in Ids |-> IF id = ID1 THEN "stopped" ELSE IF id = ID2 THEN "running" ELSE "terminated"]
    /\ tags = [id \in Ids |-> IF id = ID1 THEN FleetTags(NameDb, <<"t", "r", "u", "e">>)
                              ELSE IF id = ID2 THEN FleetTags(NameWeb, <<"o", "f", "f">>)
                              ELSE FleetTags(NameOld, <<"t", "r", "u", "e">>)]
    /\ now = 0
    /\ ops = 0
    /\ last = NoRecord
    /\ inflight = <<>>

Request(text, user_id) == [text |-> text, user_id |-> user_id]

\* no reply is pending
Idle == last.op = "init"

PowerCmd == \E text \in PowerTexts, F \in OneFault(8) :
    /\ Idle
    /\ Apply("handle_ec2_power", Request(text, <<"a">>), handle_ec2_power(World(F), text, <<"a">>))

ScheduleCmd == \E text \in ScheduleTexts, F \in OneFault(5) :
    /\ Idle
    /\ Apply("handle_ec2_schedule", Request(text, <<"a">>), handle_ec2_schedule(World(F), text, <<"a">>))

DisableCmd == \E text \in DisableTexts, F \in OneFault(5) :
    /\ Idle
    /\ Apply("handle_ec2_disable_schedule", Request(text, <<"a">>),
             handle_ec2_disable_schedule(World(F), text, <<"a">>))

StakeholderCmd == \E text \in StakeholderTexts, u \in Users, F \in OneFault(5) :
    /\ Idle
    /\ Apply("handle_ec2_stakeholder", Request(text, u), handle_ec2_stakeholder(World(F), text, u))

FuzzyCmd == \E text \in SearchTexts, F \in OneFault(1) :
    /\ Idle
    /\ Apply("handle_fuzzy_search", Request(text, <<"a">>), handle_fuzzy_search(World(F), text, <<"a">>))

Respond ==
    /\ last.op \in Handlers \cup {"handle_fuzzy_search"}
    /\ last' = NoRecord
    /\ UNCHANGED <<state, tags, now, ops, inflight>>

Next == PowerCmd \/ ScheduleCmd \/ DisableCmd \/ StakeholderCmd \/ FuzzyCmd \/ Respond \/ Progress

Spec == Init /\ [][Next]_vars

C3_Legal(op) == IF op = <<"o", "n">> THEN "stopped" ELSE "running"

C3_Reason(op, s) ==
    CASE op = <<"o", "n">> /\ s = "running" -> "{display_name} ({instance_id}) is already running"
      [] op = <<"o", "n">> /\ s = "pending" -> "{display_name} ({instance_id}) is already starting"
      [] op = <<"o", "n">> /\ s = "stopping" ->
            "Cannot start {display_name} ({instance_id}) - instance is currently stopping"
      [] op = <<"o", "f", "f">> /\ s = "stopped" -> "{display_name} ({instance_id}) is already stopped"
      [] op = <<"o", "f", "f">> /\ s = "stopping" -> "{display_name} ({instance_id}) is already stopping"
      [] op = <<"o", "f", "f">> /\ s = "pending" ->
            "Cannot stop {display_name} ({instance_id}) - instance is currently starting"
      [] op = <<"r", "e", "s", "t", "a", "r", "t">> /\ s = "stopped" ->
            "Cannot restart {display_name} ({instance_id}) - instance is currently stopped"
      [] op = <<"r", "e", "s", "t", "a", "r", "t">> /\ s = "pending" ->
            "Cannot restart {display_name} ({instance_id}) - instance is currently starting"
      [] op = <<"r", "e", "s", "t", "a", "r", "t">> /\ s = "stopping" ->
            "Cannot restart {display_name} ({instance_id}) - instance is currently stopping"

C3_Generic ==
    {"Failed to start {display_name} ({instance_id}) - please try again",
     "Failed to stop {display_name} ({instance_id}) - please try again",
     "Failed to restart {display_name} ({instance_id}) - please try again"}

C3_RefusalReasons ==
    last.op = "handle_ec2_power" =>
        LET parts == split_blank(last.arg.text)
            calls == last.calls
            g == Min(GateNotes(calls))
            op == normalize_command(parts[2], ACTION_ALIASES_POWER)
            s == calls[g + 2].val
        IN  (/\ Len(parts) = 2
             /\ GateNotes(calls) # {}
             /\ calls[g].ok
             /\ Len(calls) >= g + 2
             /\ calls[g + 2].op = "describe_instances"
             /\ calls[g + 2].ok
             /\ s \in Lifecycle \ {C3_Legal(op)}) =>
                /\ last.ret.text = C3_Reason(op, s)
                /\ last.ret.text \notin C3_Generic
                /\ Mutations(calls) = {}
                /\ state[calls[g].arg] = s

C3_Witness ==
    /\ last.op = "handle_ec2_power"
    /\ last.ret.text = "Cannot restart {display_name} ({instance_id}) - instance is currently stopped"
    /\ GateNotes(last.calls) # {}
    /\ last.calls[Min(GateNotes(last.calls))].ok


(***************************************************************************)
(* C12: after any sequence of commands, on every instance the two schedule *)
(* tags are both absent, or both present with the stored on-time strictly  *)
(* earlier than the stored off-time. The handler compares the times as     *)
(* parsed, with their seconds; the tags keep hours and minutes only.       *)
(***************************************************************************)
C12_StoredScheduleInvariant ==
    \A id \in Ids :
        LET on_time == tags[id]["PowerScheduleOnTime"]
            off_time == tags[id]["PowerScheduleOffTime"]
        IN  \/ on_time = None /\ off_time = None
            \/ /\ on_time # None /\ off_time # None
               /\ strptime(on_time) # NoTime /\ strptime(off_time) # NoTime
               /\ strptime(on_time) < strptime(off_time)

\* the pieces of a schedule command of the form <instance> <start> to <stop>
SetParts(text) == split_blank(strip(text))

IsSetForm(text) ==
    LET parts == SetParts(text)
    IN  Len(parts) >= 4 /\ index(parts, <<"t", "o">>) >= 2 /\ index(parts, <<"t", "o">>) < Len(parts) - 1

TypedStart(text) == join(SubSeq(SetParts(text), 2, index(SetParts(text), <<"t", "o">>)), " ")

TypedStop(text) == join(SubSeq(SetParts(text), index(SetParts(text), <<"t", "o">>) + 2, Len(SetParts(text))), " ")

InvalidSchedule ==
    "Invalid schedule: start time ({start_time_str}) must be before end time ({stop_time_str}). Cross-midnight schedules are not supported."

(***************************************************************************)
(* C13: a schedule command <instance> <start> to <stop> whose instance is  *)
(* found and whose two times parse: when the start is equal to or later    *)
(* than the stop, the reply is the invalid-schedule message naming the two *)
(* times as typed and saying that cross-midnight schedules are not         *)
(* supported, and the command asks no gate check and makes no mutating     *)
(* call; when the start is earlier than the stop, the instance is          *)
(* controllable and no provider call fails, the reply is that the schedule *)
(* is set and both tags are written.                                       *)
(***************************************************************************)
C13_ScheduleOrdering ==
    (/\ last.op = "handle_ec2_schedule"
     /\ IsSetForm(last.arg.text)
     /\ last.ret.instance_id # None
     /\ parse_time(TypedStart(last.arg.text)) # NoTime
     /\ parse_time(TypedStop(last.arg.text)) # NoTime) =>
        LET start_time == parse_time(TypedStart(last.arg.text))
            stop_time == parse_time(TypedStop(last.arg.text))
            id == last.ret.instance_id
        IN  /\ start_time >= stop_time =>
                  /\ last.ret.text = InvalidSchedule
                  /\ last.ret.shown = TypedStart(last.arg.text) \o <<",", " ">> \o TypedStop(last.arg.text)
                  /\ GateNotes(last.calls) = {}
                  /\ Mutations(last.calls) = {}
            /\ (/\ start_time < stop_time
                /\ can_control_instance(InstanceOf(World({}), id))
                /\ \A k \in 1..Len(last.calls) : last.calls[k].ok) =>
                  /\ last.ret.text = "Schedule set for {display_name} ({instance_id}): {start_display} to {stop_display}"
                  /\ Asked(last.calls, "create_tags", id) # {}
                  /\ tags[id]["PowerScheduleOnTime"] = format_time_for_tag(start_time)
                  /\ tags[id]["PowerScheduleOffTime"] = format_time_for_tag(stop_time)

C13_Witness ==
    /\ last.op = "handle_ec2_schedule"
    /\ last.arg.text = ID1 \o <<" ", "9", "a", "m", " ", "t", "o", " ", "9", "a", "m">>
    /\ last.ret.text = InvalidSchedule
    /\ last.ret.shown = <<"9", "a", "m", ",", " ", "9", "a", "m">>
    /\ Mutations(last.calls) = {}

\* the command, by its form, asks for a change: a power change, a schedule set or
\* clear, a disable set or cancel, a stakeholder claim or remove
AsksChange(op, text) ==
    LET parts == split_blank(strip(text))
    IN  CASE op = "handle_ec2_power" ->
                Len(parts) = 2 /\ normalize_command(parts[2], ACTION_ALIASES_POWER) \in {<<"o", "n">>, <<"o", "f", "f">>, <<"r", "e", "s", "t", "a", "r", "t">>}
          [] op = "handle_ec2_schedule" ->
                (Len(parts) = 2 /\ lower(parts[2]) \in ALIASES_SCHEDULE_CLEAR) \/ IsSetForm(text)
          [] op = "handle_ec2_disable_schedule" -> Len(parts) >= 2
          [] op = "handle_ec2_stakeholder" ->
                Len(parts) = 2 /\ normalize_command(lower(parts[2]), ACTION_ALIASES_STAKEHOLDER) \in {<<"c", "l", "a", "i", "m">>, <<"r", "e", "m", "o", "v", "e">>}
          [] OTHER -> FALSE

(***************************************************************************)
(* C15: every command that asks for a change of ID2, the instance whose    *)
(* gate tag is off, and meets no failing provider call, is answered with   *)
(* the not-controllable refusal, whatever its times, their order or its    *)
(* duration are.                                                           *)
(***************************************************************************)
C15_GateBeforeValidation ==
    (/\ last.op \in Handlers
     /\ AsksChange(last.op, last.arg.text)
     /\ split_blank(strip(last.arg.text))[1] = ID2
     /\ \A k \in 1..Len(last.calls) : last.calls[k].ok) =>
        last.ret.text = NotControllable

(***************************************************************************)
(* SpecFaults: one command of any of the five handlers, on the fleet of    *)
(* Spec with ID1 in any of the four lifecycle states, where any            *)
(* combination of the provider calls the command makes may fail.           *)
(***************************************************************************)
AnyFaults(n) == SUBSET (1..n)

AllHandlers == Handlers \cup {"handle_fuzzy_search"}

InitFaults ==
    /\ \E s1 \in Lifecycle :
          state = [id \in Ids |-> IF id = ID1 THEN s1 ELSE IF id = ID2 THEN "running" ELSE "terminated"]
    /\ tags = [id \in Ids |-> IF id = ID1 THEN FleetTags(NameDb, <<"t", "r", "u", "e">>)
                              ELSE IF id = ID2 THEN FleetTags(NameWeb, <<"o", "f", "f">>)
                              ELSE FleetTags(NameOld, <<"t", "r", "u", "e">>)]
    /\ now = 0
    /\ ops = 0
    /\ last = NoRecord
    /\ inflight = <<>>

PowerRun == \E text \in PowerTexts, F \in AnyFaults(9) :
    /\ Idle
    /\ Apply("handle_ec2_power", Request(text, <<"a">>), handle_ec2_power(World(F), text, <<"a">>))

ScheduleRun == \E text \in ScheduleTexts, F \in AnyFaults(5) :
    /\ Idle
    /\ Apply("handle_ec2_schedule", Request(text, <<"a">>), handle_ec2_schedule(World(F), text, <<"a">>))

DisableRun == \E text \in DisableTexts, F \in AnyFaults(5) :
    /\ Idle
    /\ Apply("handle_ec2_disable_schedule", Request(text, <<"a">>),
             handle_ec2_disable_schedule(World(F), text, <<"a">>))

StakeholderRun == \E text \in StakeholderTexts, u \in Users, F \in AnyFaults(5) :
    /\ Idle
    /\ Apply("handle_ec2_stakeholder", Request(text, u), handle_ec2_stakeholder(World(F), text, u))

FuzzyRun == \E text \in SearchTexts, F \in AnyFaults(1) :
    /\ Idle
    /\ Apply("handle_fuzzy_search", Request(text, <<"a">>), handle_fuzzy_search(World(F), text, <<"a">>))

NextFaults == PowerRun \/ ScheduleRun \/ DisableRun \/ StakeholderRun \/ FuzzyRun

SpecFaults == InitFaults /\ [][NextFaults]_vars

\* the provider calls of the record that failed
Failed(calls) == {k \in 1..Len(calls) : calls[k].op \notin {"can_control_instance_by_id"} /\ ~calls[k].ok}

(***************************************************************************)
(* C16: whichever provider calls of a command fail, no exception leaves    *)
(* the handler: each of the five handlers returns with a reply.            *)
(***************************************************************************)
C16_NoExceptionEscapes ==
    last.op \in AllHandlers => (~last.raised /\ last.ret.text # "")

\* a stakeholder command two of whose provider calls failed
C16_Witness ==
    /\ last.op = "handle_ec2_stakeholder"
    /\ Cardinality(Failed(last.calls)) >= 2
    /\ ~last.raised
    /\ last.ret.text # ""

\* the provider calls of a record, the notes of gate results left out
ProviderCalls(calls) == {k \in 1..Len(calls) : calls[k].op # "can_control_instance_by_id"}

\* the largest number of provider calls a command of each handler makes when none fails
CallBound == [h \in AllHandlers |->
                 CASE h = "handle_ec2_power" -> 8
                   [] h = "handle_fuzzy_search" -> 1
                   [] OTHER -> 5]

\* the command of the record, run where no provider call fails
RunClean(l) ==
    CASE l.op = "handle_ec2_power" -> handle_ec2_power(World({}), l.arg.text, l.arg.user_id)
      [] l.op = "handle_ec2_schedule" -> handle_ec2_schedule(World({}), l.arg.text, l.arg.user_id)
      [] l.op = "handle_ec2_disable_schedule" ->
            handle_ec2_disable_schedule(World({}), l.arg.text, l.arg.user_id)
      [] l.op = "handle_ec2_stakeholder" -> handle_ec2_stakeholder(World({}), l.arg.text, l.arg.user_id)
      [] l.op = "handle_fuzzy_search" -> handle_fuzzy_search(World({}), l.arg.text, l.arg.user_id)

\* a command has run in this step and made no more provider calls than it makes, from the
\* same state, when none of them fails
NoMoreCallsThanClean ==
    last'.op \in AllHandlers =>
        Cardinality(ProviderCalls(last'.calls)) <= Cardinality(ProviderCalls(RunClean(last').w.calls))

FailuresAddNoCalls == [][NoMoreCallsThanClean]_vars

(***************************************************************************)
(* C36: whichever provider calls of a command fail, the command ends after *)
(* at most the number of provider calls its handler makes when none fails  *)
(* (8 for power, 5 for schedule, disable and stakeholder, 1 for search);   *)
(* it issues at most one mutating call (start, stop, reboot, create_tags,  *)
(* delete_tags), and a mutating call that failed is its last call of that  *)
(* kind: nothing is issued a second time.                                  *)
(***************************************************************************)
C36_BoundedCallsNoRetry ==
    last.op \in AllHandlers =>
        /\ Cardinality(ProviderCalls(last.calls)) <= CallBound[last.op]
        /\ Cardinality(Mutations(last.calls)) <= 1
        /\ \A k \in Mutations(last.calls) :
              ~last.calls[k].ok => \A j \in (k + 1)..Len(last.calls) : last.calls[j].op # last.calls[k].op

\* a stakeholder claim whose write failed: one create_tags, the reply given
C36_Witness ==
    /\ last.op = "handle_ec2_stakeholder"
    /\ Cardinality(Mutations(last.calls)) = 1
    /\ \E k \in Mutations(last.calls) : ~last.calls[k].ok
    /\ ~last.raised

(***************************************************************************)
(* C17: a provider call that fails is not reported as a refusal: when the  *)
(* lookup of a name fails the reply is not that the instance is not found, *)
(* and when the read of a gate check fails the reply is not that the       *)
(* instance cannot be controlled.                                          *)
(***************************************************************************)
C17_ProviderFailureReported ==
    last.op \in Handlers =>
        LET calls == last.calls
        IN  /\ (\E k \in 1..Len(calls) : calls[k].op = "describe_instances_by_name" /\ ~calls[k].ok)
                  => last.ret.text # NotFound
            /\ (\E g \in GateNotes(calls) :
                    g > 1 /\ calls[g - 1].op = "describe_instances" /\ ~calls[g - 1].ok)
                  => last.ret.text # NotControllable

\* the reasons of the nine (operation, state) pairs that break a precondition
PreconditionReasons ==
    UNION {{C3_Reason(op, s) : s \in Lifecycle \ {C3_Legal(op)}} : op \in {<<"o", "n">>, <<"o", "f", "f">>, <<"r", "e", "s", "t", "a", "r", "t">>}}

FailedToDetermine == "Failed to determine state of {display_name} ({instance_id}) - please try again"

(***************************************************************************)
(* C18: in the power handler, after a gate check that passed: when the     *)
(* state read is the legal state of the operation and the provider's       *)
(* start, stop or reboot call is made and raises, the reply is the generic *)
(* failure of that operation, which is none of the nine precondition       *)
(* reasons; when the state read fails, the reply is that the state could   *)
(* not be determined, and no start, stop or reboot call is made.           *)
(***************************************************************************)
C18_ProviderFailureIsGeneric ==
    last.op = "handle_ec2_power" =>
        LET parts == split_blank(last.arg.text)
            calls == last.calls
            g == Min(GateNotes(calls))
            op == normalize_command(parts[2], ACTION_ALIASES_POWER)
            acts == {k \in 1..Len(calls) :
                        calls[k].op \in {"start_instances", "stop_instances", "reboot_instances"}}
        IN  (/\ Len(parts) = 2
             /\ op \in {<<"o", "n">>, <<"o", "f", "f">>, <<"r", "e", "s", "t", "a", "r", "t">>}
             /\ GateNotes(calls) # {}
             /\ calls[g].ok
             /\ Len(calls) >= g + 2
             /\ calls[g + 2].op = "describe_instances") =>
                /\ (/\ calls[g + 2].ok
                    /\ calls[g + 2].val = C3_Legal(op)
                    /\ \E k \in acts : ~calls[k].ok) =>
                        /\ last.ret.text = power_failure_generic(op, C3_Legal(op))
                        /\ last.ret.text \in C3_Generic
                        /\ last.ret.text \notin PreconditionReasons
                /\ ~calls[g + 2].ok =>
                        /\ last.ret.text = FailedToDetermine
                        /\ acts = {}

\* the start call of the command was made and raised
C18_Witness ==
    /\ last.op = "handle_ec2_power"
    /\ last.arg.text = ID1 \o <<" ", "o", "n">>
    /\ \E k \in 1..Len(last.calls) : last.calls[k].op = "start_instances" /\ ~last.calls[k].ok
    /\ last.ret.text = "Failed to start {display_name} ({instance_id}) - please try again"

(***************************************************************************)
(* SpecE2E: the command db-1 on issued again and again on the fleet of     *)
(* Spec, where ID1 starts stopped. The provider's reads are eventually     *)
(* consistent: a start it has accepted shows in describe_instances at once *)
(* or only later (Reflect), after which the instance goes from pending to  *)
(* running (Progress). Any user issues it; one of its provider calls may    *)
(* fail.                                                                   *)
(***************************************************************************)
OnText == NameDb \o <<" ", "o", "n">>

InitE2E == Init

\* the command runs; the start it obtained shows in the reads at once or not yet
OnCmd == \E u \in Users, F \in OneFault(9), shows \in BOOLEAN :
    /\ ops < MaxOps
    /\ LET r == handle_ec2_power(World(F), OnText, u)
           accepted == {id \in Ids : state[id] = "stopped" /\ r.w.state[id] = "pending"}
       IN  /\ shows \/ accepted # {}
           /\ state' = IF shows THEN r.w.state ELSE state
           /\ inflight' = IF shows \/ accepted = {} THEN <<>> ELSE <<ID1>>
           /\ tags' = r.w.tags
           /\ now' = r.w.now
           /\ last' = Record("handle_ec2_power", Request(OnText, u), r)
    /\ ops' = ops + 1

\* the reads of the provider come to show the start it had accepted
Reflect ==
    /\ inflight # <<>>
    /\ state' = [state EXCEPT ![inflight[1]] = "pending"]
    /\ inflight' = <<>>
    /\ last' = NoRecord
    /\ UNCHANGED <<tags, now, ops>>

\* pending -> running, once no accepted start is still hidden
Settle == inflight = <<>> /\ Progress

NextE2E == OnCmd \/ Reflect \/ Settle

SpecE2E == InitE2E /\ [][NextE2E]_vars

(***************************************************************************)
(* C19: every issue of db-1 on that meets no failing provider call and     *)
(* whose state read is stopped resolves the name to ID1, passes the gate   *)
(* and is answered with the success reply carrying the previous state      *)
(* stopped, a start call having been made, the first time and every time   *)
(* it is issued again before the reads show the change; every issue whose  *)
(* state read is running is answered that the instance is already running, *)
(* and makes no start call.                                                *)
(***************************************************************************)
C19_EndToEnd ==
    (/\ last.op = "handle_ec2_power"
     /\ last.arg.text = OnText
     /\ Failed(last.calls) = {}) =>
        LET calls == last.calls
            g == Min(GateNotes(calls))
            starts == Asked(calls, "start_instances", ID1)
        IN  /\ calls[1].op = "describe_instances_by_name" /\ calls[1].arg = NameDb
            /\ last.ret.instance_id = ID1
            /\ GateNotes(calls) # {} /\ calls[g].ok /\ calls[g].arg = ID1
            /\ calls[g + 2].op = "describe_instances"
            /\ calls[g + 2].val = "stopped" =>
                  /\ last.ret.text = "Set {display_name} ({instance_id}) to {power_state}"
                  /\ last.ret.state = "stopped"
                  /\ last.ret.shown = <<"o", "n">>
                  /\ starts # {} /\ \A k \in starts : calls[k].ok
            /\ calls[g + 2].val = "running" =>
                  /\ last.ret.text = "{display_name} ({instance_id}) is already running"
                  /\ starts = {}

\* the command issued again while the reads still show stopped
C19_Witness ==
    /\ ops >= 2
    /\ inflight = <<ID1>>
    /\ last.op = "handle_ec2_power"
    /\ last.arg.text = OnText
    /\ last.ret.text = "Set {display_name} ({instance_id}) to {power_state}"
    /\ last.ret.state = "stopped"

(***************************************************************************)
(* SpecClock: the disable marker of ID1 on the fleet of Spec while the     *)
(* clock advances. The marker is set for a number of hours, cancelled, and *)
(* read by is_schedule_disabled and get_disable_schedule; one provider     *)
(* call of an operation may fail. inflight keeps the instant and the hours *)
(* of the last successful set that no cancel followed.                     *)
(***************************************************************************)
DisableHours == {1, 2}
\* the minutes the clock advances by in one step: an hour, a minute less, a minute more
Steps == {59, 60, 61}

InitClock == Init

Tick == \E d \in Steps :
    /\ now + d <= MaxNow
    /\ now' = now + d
    /\ last' = NoRecord
    /\ UNCHANGED <<state, tags, ops, inflight>>

SetDisableOp == \E hours \in DisableHours, F \in OneFault(3) :
    LET r == set_disable_schedule(World(F), ID1, hours)
    IN  /\ state' = r.w.state
        /\ tags' = r.w.tags
        /\ now' = r.w.now
        /\ last' = Record("set_disable_schedule", <<ID1, hours>>, r)
        /\ inflight' = IF r.ret THEN <<[t |-> now, hours |-> hours]>> ELSE inflight
        /\ UNCHANGED ops

DeleteDisableOp == \E F \in OneFault(3) :
    LET r == delete_disable_schedule(World(F), ID1)
    IN  /\ state' = r.w.state
        /\ tags' = r.w.tags
        /\ now' = r.w.now
        /\ last' = Record("delete_disable_schedule", ID1, r)
        /\ inflight' = IF r.ret THEN <<>> ELSE inflight
        /\ UNCHANGED ops

IsDisabledOp == \E F \in OneFault(1) :
    Apply("is_schedule_disabled", ID1, is_schedule_disabled(World(F), ID1))

GetDisableOp == \E F \in OneFault(1) :
    Apply("get_disable_schedule", ID1, get_disable_schedule(World(F), ID1))

NextClock == Tick \/ SetDisableOp \/ DeleteDisableOp \/ IsDisabledOp \/ GetDisableOp

SpecClock == InitClock /\ [][NextClock]_vars

\* the instant the period set last runs out
Expiry == inflight[1].t + 60 * inflight[1].hours

(***************************************************************************)
(* C20: after set_disable_schedule(ID1, h) succeeded at instant t and no   *)
(* set or cancel followed, every is_schedule_disabled(ID1) whose read of   *)
(* the tags returns is TRUE when t <= now < t + h hours and FALSE when     *)
(* now >= t + h hours; and whatever was read or evaluated since, before    *)
(* and after that instant, the PowerScheduleDisabledUntil tag still holds  *)
(* the instant t + h hours.                                                *)
(***************************************************************************)
C20_DisableMarkerOverTime ==
    inflight # <<>> =>
        /\ tags[ID1]["PowerScheduleDisabledUntil"] = isoformat(Expiry)
        /\ (/\ last.op = "is_schedule_disabled"
            /\ Failed(last.calls) = {}) =>
                /\ inflight[1].t <= now
                /\ (now < Expiry => last.ret = TRUE)
                /\ (now >= Expiry => last.ret = FALSE)

\* the marker read at the very instant it runs out, having been read as disabled before
C20_Witness ==
    /\ inflight # <<>>
    /\ inflight[1].t > 0
    /\ now = Expiry
    /\ last.op = "is_schedule_disabled"
    /\ Failed(last.calls) = {}
    /\ last.ret = FALSE
    /\ tags[ID1]["PowerScheduleDisabledUntil"] # None

(***************************************************************************)
(* SpecClear: the schedule and the disable marker of ID1 (controllable)    *)
(* and ID2 (not controllable) set and cleared, the fleet starting with any *)
(* of the schedule tags and the marker of ID1 set or not; one provider     *)
(* call of an operation may fail. inflight keeps the last two clears that  *)
(* no set came between: what the tags were before and after, the result.   *)
(***************************************************************************)
ClearKeys(op) ==
    IF op = "delete_schedule" THEN {"PowerScheduleOnTime", "PowerScheduleOffTime"}
    ELSE {"PowerScheduleDisabledUntil"}

InitClear ==
    /\ \E on \in {None, <<"0", "9", ":", "0", "0">>}, off \in {None, <<"1", "7", ":", "0", "0">>}, until \in {None, isoformat(60)} :
          tags = [id \in Ids |-> IF id = ID1
                                 THEN [FleetTags(NameDb, <<"t", "r", "u", "e">>) EXCEPT
                                          !["PowerScheduleOnTime"] = on,
                                          !["PowerScheduleOffTime"] = off,
                                          !["PowerScheduleDisabledUntil"] = until]
                                 ELSE IF id = ID2 THEN FleetTags(NameWeb, <<"o", "f", "f">>)
                                 ELSE FleetTags(NameOld, <<"t", "r", "u", "e">>)]
    /\ state = [id \in Ids |-> IF id = ID1 THEN "stopped" ELSE IF id = ID2 THEN "running" ELSE "terminated"]
    /\ now = 0
    /\ ops = 0
    /\ last = NoRecord
    /\ inflight = <<>>

\* a clear has run: it joins the clears kept, of which the last two stay
Cleared(op, id, r) ==
    /\ state' = r.w.state
    /\ tags' = r.w.tags
    /\ now' = r.w.now
    /\ last' = Record(op, id, r)
    /\ inflight' = LET this == [op |-> op, id |-> id, before |-> tags[id], after |-> r.w.tags[id],
                                ret |-> r.ret, failed |-> Failed(r.w.calls) # {}]
                   IN  IF inflight = <<>> THEN <<this>> ELSE <<inflight[Len(inflight)], this>>
    /\ UNCHANGED ops

ClearScheduleOp == \E id \in {ID1, ID2}, F \in OneFault(3) :
    Cleared("delete_schedule", id, delete_schedule(World(F), id))

ClearDisableOp == \E id \in {ID1, ID2}, F \in OneFault(3) :
    Cleared("delete_disable_schedule", id, delete_disable_schedule(World(F), id))

\* a set: the clears before it are no longer in a row with the ones after
SetScheduleOp == \E F \in OneFault(3) :
    /\ inflight' = <<>>
    /\ LET r == set_schedule(World(F), ID1, 9 * 3600, 17 * 3600)
       IN  /\ state' = r.w.state
           /\ tags' = r.w.tags
           /\ now' = r.w.now
           /\ last' = Record("set_schedule", ID1, r)
    /\ UNCHANGED ops

SetMarkerOp == \E F \in OneFault(3) :
    /\ inflight' = <<>>
    /\ LET r == set_disable_schedule(World(F), ID1, 1)
       IN  /\ state' = r.w.state
           /\ tags' = r.w.tags
           /\ now' = r.w.now
           /\ last' = Record("set_disable_schedule", ID1, r)
    /\ UNCHANGED ops

NextClear == ClearScheduleOp \/ ClearDisableOp \/ SetScheduleOp \/ SetMarkerOp

SpecClear == InitClear /\ [][NextClear]_vars

\* the clear that ran last, and the one before it
ThisClear == inflight[Len(inflight)]
ClearBefore == inflight[1]

\* the tags a clear is about are all absent in a tag map
Absent(op, t) == \A k \in ClearKeys(op) : t[k] = None

(***************************************************************************)
(* C21: on the controllable instance ID1, delete_schedule and              *)
(* delete_disable_schedule none of whose provider calls failed return TRUE *)
(* and leave their tags absent, also when none of these tags was set       *)
(* before; and the same clear applied twice in a row (no failed call in    *)
(* either) returns the second time what it returned the first time and     *)
(* leaves the tags of the instance as the first left them.                 *)
(***************************************************************************)
C21_ClearIdempotent ==
    (/\ inflight # <<>>
     /\ ThisClear.id = ID1
     /\ ~ThisClear.failed) =>
        /\ ThisClear.ret = TRUE
        /\ Absent(ThisClear.op, ThisClear.after)
        /\ \A k \in TagKeys \ ClearKeys(ThisClear.op) : ThisClear.after[k] = ThisClear.before[k]
        /\ (/\ Len(inflight) = 2
            /\ ClearBefore.op = ThisClear.op
            /\ ClearBefore.id = ID1
            /\ ~ClearBefore.failed) =>
                /\ ThisClear.ret = ClearBefore.ret
                /\ ThisClear.after = ClearBefore.after
                /\ ThisClear.before = ClearBefore.after

\* delete_schedule twice in a row, the first on an instance with no schedule tags
C21_Witness ==
    /\ Len(inflight) = 2
    /\ ThisClear.op = "delete_schedule" /\ ClearBefore.op = "delete_schedule"
    /\ ThisClear.id = ID1 /\ ClearBefore.id = ID1
    /\ ~ThisClear.failed /\ ~ClearBefore.failed
    /\ Absent("delete_schedule", ClearBefore.before)
    /\ ThisClear.ret = TRUE
    /\ Asked(last.calls, "delete_tags", ID1) # {}

(***************************************************************************)
(* SpecSearch: fuzzy_search_instances on a fleet of twelve instances, more *)
(* than a result holds. Names repeat, differ in case, contain the name or  *)
(* the ID of another instance, or are missing; the gate tag of two         *)
(* instances and the lifecycle state of a third vary; the one provider     *)
(* call may fail.                                                          *)
(***************************************************************************)
SearchFleet(ctl9, st10, ctl12) ==
    <<[id |-> <<"i", "-", "0", "0", "1">>, name |-> <<"d", "b">>, ctl |-> <<"t", "r", "u", "e">>, st |-> "running"],
      [id |-> <<"i", "-", "0", "0", "2">>, name |-> <<"d", "b", "-", "1">>, ctl |-> <<"t", "r", "u", "e">>, st |-> "stopped"],
      [id |-> <<"i", "-", "0", "0", "3">>, name |-> <<"a", "d", "b">>, ctl |-> <<"t", "r", "u", "e">>, st |-> "running"],
      [id |-> <<"i", "-", "0", "0", "4">>, name |-> <<"D", "B">>, ctl |-> <<"t", "r", "u", "e">>, st |-> "running"],
      [id |-> <<"i", "-", "0", "0", "5">>, name |-> None, ctl |-> <<"t", "r", "u", "e">>, st |-> "running"],
      [id |-> <<"i", "-", "0", "0", "6">>, name |-> <<"w", "e", "b">>, ctl |-> <<"t", "r", "u", "e">>, st |-> "pending"],
      [id |-> <<"i", "-", "0", "0", "7">>, name |-> <<"w", "e", "b", "-", "d", "b">>, ctl |-> <<"t", "r", "u", "e">>, st |-> "stopping"],
      [id |-> <<"i", "-", "0", "0", "8">>, name |-> <<"i", "-", "0", "1", "2", "a">>, ctl |-> <<"t", "r", "u", "e">>, st |-> "running"],
      [id |-> <<"i", "-", "0", "0", "9">>, name |-> <<"a", "p", "i">>, ctl |-> ctl9, st |-> "running"],
      [id |-> <<"i", "-", "0", "1", "0">>, name |-> <<"d", "b", "-", "2">>, ctl |-> <<"t", "r", "u", "e">>, st |-> st10],
      [id |-> <<"i", "-", "0", "1", "1">>, name |-> <<"D", "b", "-", "3">>, ctl |-> <<"t", "r", "u", "e">>, st |-> "stopped"],
      [id |-> <<"i", "-", "0", "1", "2">>, name |-> <<"0", "-", "d", "a", "y">>, ctl |-> ctl12, st |-> "running"]>>

SearchTerms == {<<>>, <<"d", "b">>, <<"D", "B">>, <<"d", "b", "-">>, <<"b">>, <<"i", "-">>, <<"i", "-", "0", "1", "2">>, <<"I", "-", "0">>, <<"0">>, <<"w", "e", "b">>, <<"1">>, <<"n", "o", "s", "u", "c", "h">>}

InitSearch ==
    /\ \E ctl9 \in {<<"t", "r", "u", "e">>, <<"o", "f", "f">>, None}, st10 \in {"running", "terminated", "shutting-down"},
          ctl12 \in {<<"t", "r", "u", "e">>, <<"F", "a", "l", "s", "e">>} :
          LET fleet == SearchFleet(ctl9, st10, ctl12)
              at(id) == CHOOSE k \in 1..Len(fleet) : fleet[k].id = id
              ids == {fleet[k].id : k \in 1..Len(fleet)}
          IN  /\ state = [id \in ids |-> fleet[at(id)].st]
              /\ tags = [id \in ids |-> FleetTags(fleet[at(id)].name, fleet[at(id)].ctl)]
    /\ now = 0
    /\ ops = 0
    /\ last = NoRecord
    /\ inflight = <<>>

SearchOp == \E term \in SearchTerms, F \in OneFault(1) :
    /\ Idle
    /\ Apply("fuzzy_search_instances", term, fuzzy_search_instances(World(F), term))

\* an instance changes its name, and so what the next search finds; the result of
\* the search before is of no use any more
RenameOp == \E id \in {<<"i", "-", "0", "0", "5">>}, name \in {None, <<"d", "b">>} :
    /\ tags[id]["Name"] # name
    /\ tags' = [tags EXCEPT ![id]["Name"] = name]
    /\ last' = NoRecord
    /\ UNCHANGED <<state, now, ops, inflight>>

NextSearch == SearchOp \/ RenameOp

SpecSearch == InitSearch /\ [][NextSearch]_vars

\* the name of an instance as it is compared: lower case, empty when there is none
NameOf(id) == IF tags[id]["Name"] = None THEN <<>> ELSE lower(tags[id]["Name"])

\* the instances a search for the term is to find
Matches(term) ==
    {id \in DOMAIN state :
        /\ state[id] \in Lifecycle
        /\ can_control_instance([found |-> TRUE, InstanceId |-> id, State |-> state[id], Tags |-> tags[id]])
        /\ \/ Contains(lower(term), lower(id))
           \/ Contains(lower(term), NameOf(id)) /\ NameOf(id) # <<>>}

\* 0: the term is the ID or the name; 1: it starts either; 2: otherwise
Rank(term, id) ==
    IF lower(term) = lower(id) \/ lower(term) = NameOf(id) THEN 0
    ELSE IF startswith(lower(id), lower(term)) \/ startswith(NameOf(id), lower(term)) THEN 1
    ELSE 2

\* a comes before b in the order (rank, name, ID)
Before(term, a, b) ==
    \/ Rank(term, a) < Rank(term, b)
    \/ Rank(term, a) = Rank(term, b) /\ StrLess(NameOf(a), NameOf(b))
    \/ Rank(term, a) = Rank(term, b) /\ NameOf(a) = NameOf(b) /\ StrLess(lower(a), lower(b))

(***************************************************************************)
(* C22: a fuzzy_search_instances whose provider call returned gives the    *)
(* instances that are in one of the four lifecycle states, pass the gate   *)
(* and whose ID or name contains the term whatever the letter case, each   *)
(* once with its name and state, in ascending order of (rank, name, ID),   *)
(* rank 0 for a term equal to the ID or name, 1 for a prefix of either, 2  *)
(* otherwise; it gives all of them when they are at most 10 and else the   *)
(* first 10 of that order, every instance left out coming after every      *)
(* instance given.                                                         *)
(***************************************************************************)
C22_FuzzySearchResult ==
    (/\ last.op = "fuzzy_search_instances"
     /\ Failed(last.calls) = {}) =>
        LET res == last.ret
            term == last.arg
            given == {res[k].InstanceId : k \in 1..Len(res)}
        IN  /\ Len(res) <= 10
            /\ Len(res) = IF Cardinality(Matches(term)) > 10 THEN 10 ELSE Cardinality(Matches(term))
            /\ given \subseteq Matches(term)
            /\ \A k \in 1..Len(res) :
                  /\ res[k].Name = tags[res[k].InstanceId]["Name"]
                  /\ res[k].State = state[res[k].InstanceId]
            /\ \A j, k \in 1..Len(res) : j < k => Before(term, res[j].InstanceId, res[k].InstanceId)
            /\ \A a \in given, b \in Matches(term) \ given : Before(term, a, b)

\* a search cut to 10 results that holds an exact match, then a prefix match whose name
\* would sort after, and a match of rank 2
C22_Witness ==
    /\ last.op = "fuzzy_search_instances"
    /\ Failed(last.calls) = {}
    /\ Cardinality(Matches(last.arg)) > 10
    /\ Len(last.ret) = 10
    /\ \E j, k \in 1..Len(last.ret) :
          /\ j < k
          /\ Rank(last.arg, last.ret[j].InstanceId) = 1
          /\ Rank(last.arg, last.ret[k].InstanceId) = 2
          /\ StrLess(NameOf(last.ret[k].InstanceId), NameOf(last.ret[j].InstanceId))

(***************************************************************************)
(* SpecShape: one command of each handler on the fleet of Spec, its text   *)
(* made of zero to four tokens with blanks around and between them; one of *)
(* its first provider calls may fail.                                      *)
(***************************************************************************)
MaxTokens == 4

ShapeTokens == {ID1, <<"o", "n">>, <<"t", "o">>, <<"c", "l", "e", "a", "r">>}

TokenLists == UNION {[1..n -> ShapeTokens] : n \in 0..MaxTokens}

\* the tokens with one blank between them, or with blanks before, between and after
RECURSIVE Glue(_, _)
Glue(tokens, gap) ==
    IF tokens = <<>> THEN <<>>
    ELSE IF Len(tokens) = 1 THEN tokens[1]
    ELSE tokens[1] \o gap \o Glue(Tail(tokens), gap)

Spaced(tokens, wide) ==
    IF wide THEN <<" ">> \o Glue(tokens, <<" ", " ">>) \o <<" ">> ELSE Glue(tokens, <<" ">>)

ShapeTexts == {Spaced(tokens, wide) : tokens \in TokenLists, wide \in BOOLEAN}

InitShape == Init

PowerShape == \E text \in ShapeTexts, F \in OneFault(2) :
    /\ Idle
    /\ Apply("handle_ec2_power", Request(text, <<"a">>), handle_ec2_power(World(F), text, <<"a">>))

ScheduleShape == \E text \in ShapeTexts, F \in OneFault(2) :
    /\ Idle
    /\ Apply("handle_ec2_schedule", Request(text, <<"a">>), handle_ec2_schedule(World(F), text, <<"a">>))

DisableShape == \E text \in ShapeTexts, F \in OneFault(2) :
    /\ Idle
    /\ Apply("handle_ec2_disable_schedule", Request(text, <<"a">>),
             handle_ec2_disable_schedule(World(F), text, <<"a">>))

StakeholderShape == \E text \in ShapeTexts, F \in OneFault(2) :
    /\ Idle
    /\ Apply("handle_ec2_stakeholder", Request(text, <<"a">>), handle_ec2_stakeholder(World(F), text, <<"a">>))

NextShape == PowerShape \/ ScheduleShape \/ DisableShape \/ StakeholderShape

SpecShape == InitShape /\ [][NextShape]_vars

\* the number of tokens of a text: the places where a token starts
TokenCount(text) ==
    Cardinality({k \in 1..Len(text) : text[k] # " " /\ (k = 1 \/ text[k - 1] = " ")})

\* the token counts that are no shape of a command
NoShape(op, n) ==
    CASE op = "handle_ec2_power" -> n = 0 \/ n >= 3
      [] op = "handle_ec2_schedule" -> n = 0 \/ n = 3
      [] op = "handle_ec2_disable_schedule" -> n = 0
      [] op = "handle_ec2_stakeholder" -> n = 0 \/ n >= 3

UsageOf(op) ==
    CASE op = "handle_ec2_power" -> "Usage: <instance-id|instance-name> [on|off|restart]"
      [] op = "handle_ec2_schedule" ->
            "Usage: <instance-id|instance-name> [<start_time> to <stop_time>] or <instance-id|instance-name> clear"
      [] op = "handle_ec2_disable_schedule" ->
            "Usage: <instance-id|instance-name> [<hours>] or <instance-id|instance-name> cancel"
      [] op = "handle_ec2_stakeholder" -> "Usage: <instance-id|instance-name> [claim|remove|show]"

UpperChar(c) ==
    IF \E k \in 1..Len(LowerOf) : LowerOf[k] = c
    THEN Upper[CHOOSE k \in 1..Len(LowerOf) : LowerOf[k] = c]
    ELSE c

\* str.upper()
upper(s) == [k \in 1..Len(s) |-> UpperChar(s[k])]

\* str.capitalize() of a word in lower case
capitalize(s) == IF s = <<>> THEN s ELSE <<UpperChar(s[1])>> \o Tail(s)

AliasTables == {ACTION_ALIASES_POWER, ACTION_ALIASES_STAKEHOLDER}

\* the words of a table: its canonical values and their synonyms
WordsOf(alias_map) == UNION {{alias_map[k][1]} \cup alias_map[k][2] : k \in 1..Len(alias_map)}

UnknownWords == {<<"b", "o", "g", "u", "s">>, <<"o", "n", "n">>, <<"o">>, <<"s", "t", "a", "r", "t", " ", "n", "o", "w">>, <<"r", "e", "-", "s", "t", "a", "r", "t">>, <<>>}

AliasWords ==
    LET plain == UNION {WordsOf(t) : t \in AliasTables} \cup UnknownWords
    IN  plain \cup {upper(v) : v \in plain} \cup {capitalize(v) : v \in plain}

InitAlias == Init

NormalizeOp == \E value \in AliasWords, alias_map \in AliasTables :
    /\ Idle
    /\ Apply("normalize_command", [value |-> value, alias_map |-> alias_map],
             Ret(World({}), normalize_command(value, alias_map)))

\* the result has been used
ForgetOp ==
    /\ last.op = "normalize_command"
    /\ last' = NoRecord
    /\ UNCHANGED <<state, tags, now, ops, inflight>>

NextAlias == NormalizeOp \/ ForgetOp

SpecAlias == InitAlias /\ [][NextAlias]_vars

\* the word, whatever its letter case, is the canonical value k of the table or one of its synonyms
IsSynonym(value, alias_map, k) ==
    lower(value) = alias_map[k][1] \/ lower(value) \in alias_map[k][2]

Synonyms ==
    \A k \in 1..Len(last.arg.alias_map) :
        IsSynonym(last.arg.value, last.arg.alias_map, k) => last.ret = last.arg.alias_map[k][1]

Recognised == \E k \in 1..Len(last.arg.alias_map) : IsSynonym(last.arg.value, last.arg.alias_map, k)

CallerIds == {<<"U", "0", "8", "Q", "Y", "U", "6", "A", "X", "0", "V">>, <<"U", "0", "7", "G", "M", "0", "B", "S", "G", "R", "L">>, <<"a">>, <<>>}

CallerPowerTexts == {ID1, ID1 \o <<" ", "o", "n">>, NameDb \o <<" ", "o", "f", "f">>, ID1 \o <<" ", "r", "e", "s", "t", "a", "r", "t">>, ID2 \o <<" ", "o", "n">>, <<"n", "o", "s", "u", "c", "h", " ", "o", "n">>}
CallerScheduleTexts == {ID1, ID1 \o <<" ", "9", "a", "m", " ", "t", "o", " ", "5", "p", "m">>, NameDb \o <<" ", "c", "l", "e", "a", "r">>, ID2 \o <<" ", "c", "l", "e", "a", "r">>, ID1 \o <<" ", "5", "p", "m", " ", "t", "o", " ", "9", "a", "m">>}
CallerDisableTexts == {ID1, ID1 \o <<" ", "2", "h">>, NameDb \o <<" ", "c", "a", "n", "c", "e", "l">>, ID2 \o <<" ", "2", "h">>}
CallerSearchTexts == {<<"d", "b">>, <<"i", "-">>, <<"n", "o", "s", "u", "c", "h">>, <<>>}

InitCaller ==
    /\ \E s1 \in Lifecycle :
          state = [id \in Ids |-> IF id = ID1 THEN s1 ELSE IF id = ID2 THEN "running" ELSE "terminated"]
    /\ tags = [id \in Ids |-> IF id = ID1 THEN FleetTags(NameDb, <<"t", "r", "u", "e">>)
                              ELSE IF id = ID2 THEN FleetTags(NameWeb, <<"o", "f", "f">>)
                              ELSE FleetTags(NameOld, <<"t", "r", "u", "e">>)]
    /\ now = 0
    /\ ops = 0
    /\ last = NoRecord
    /\ inflight = <<>>

\* the two runs of a command: r by the caller user_id, other by the caller other_id
RunTwice(op, text, user_id, other_id, r, other) ==
    /\ Idle
    /\ user_id # other_id
    /\ state' = r.w.state
    /\ tags' = r.w.tags
    /\ now' = r.w.now
    /\ last' = Record(op, [text |-> text, user_id |-> user_id, other_id |-> other_id], r)
    /\ inflight' = <<[ret |-> other.ret, calls |-> other.w.calls, raised |-> other.w.raising,
                      state |-> other.w.state, tags |-> other.w.tags]>>
    /\ UNCHANGED ops

PowerTwice == \E text \in CallerPowerTexts, F \in OneFault(4), u, v \in CallerIds :
    RunTwice("handle_ec2_power", text, u, v,
             handle_ec2_power(World(F), text, u), handle_ec2_power(World(F), text, v))

ScheduleTwice == \E text \in CallerScheduleTexts, F \in OneFault(4), u, v \in CallerIds :
    RunTwice("handle_ec2_schedule", text, u, v,
             handle_ec2_schedule(World(F), text, u), handle_ec2_schedule(World(F), text, v))

DisableTwice == \E text \in CallerDisableTexts, F \in OneFault(4), u, v \in CallerIds :
    RunTwice("handle_ec2_disable_schedule", text, u, v,
             handle_ec2_disable_schedule(World(F), text, u), handle_ec2_disable_schedule(World(F), text, v))

SearchTwice == \E text \in CallerSearchTexts, F \in OneFault(1), u, v \in CallerIds :
    RunTwice("handle_fuzzy_search", text, u, v,
             handle_fuzzy_search(World(F), text, u), handle_fuzzy_search(World(F), text, v))

NextCaller == PowerTwice \/ ScheduleTwice \/ DisableTwice \/ SearchTwice

SpecCaller == InitCaller /\ [][NextCaller]_vars

(***************************************************************************)
(* C25: a power, schedule, disable-schedule or search command run on the   *)
(* same store by two different callers gives both the same reply, makes    *)
(* the same provider calls with the same results in the same order, and    *)
(* leaves the same store.                                                  *)
(***************************************************************************)
C25_CallerIndependence ==
    inflight # <<>> =>
        /\ last.ret = inflight[1].ret
        /\ last.calls = inflight[1].calls
        /\ last.raised = inflight[1].raised
        /\ state = inflight[1].state
        /\ tags = inflight[1].tags

\* a start obtained alike by an administrator of config.py and by a request without user_id
C25_Witness ==
    /\ inflight # <<>>
    /\ last.op = "handle_ec2_power"
    /\ last.arg.user_id \in ADMIN_USERS
    /\ last.arg.other_id = <<>>
    /\ last.ret.text = "Set {display_name} ({instance_id}) to {power_state}"
    /\ Asked(inflight[1].calls, "start_instances", ID1) # {}

(***************************************************************************)
(* SpecHours: parse_hours applied to the hours 0..MaxHours written out     *)
(* with the suffix h, and to texts of every other kind: empty, blank,      *)
(* None, without the suffix, with a prefix that is no integer, with a      *)
(* sign, zeros or blanks around the number, with a capital H.              *)
(***************************************************************************)
OtherHourTexts ==
    {None, <<>>, <<" ">>, <<"2">>, <<"2", "4">>, <<"a", "h">>, <<"h">>, <<"h", "h">>, <<"2", ".", "5", "h">>, <<"2", "h", "h">>, <<"h", "2">>, <<"2", " ", "h", " ", "3", "h">>, <<"i", "n", "v", "a", "l", "i", "d", "-", "h", "o", "u", "r", "s">>,
     <<"-", "1", "h">>, <<"-", "2", "h">>, <<"-", "0", "h">>, <<"0", "0", "h">>, <<"+", "0", "h">>, <<"1", "e", "2", "h">>, <<"0", "x", "1", "0", "h">>, <<"2", "m">>, <<"2", "h", "o", "u", "r", "s">>,
     <<"2", "H">>, <<" ", "2", "h", " ">>, <<"+", "3", "h">>, <<"0", "0", "7", "h">>, <<"2", " ", "h">>, <<"1", "0", "0", "0", "0", "0", "h">>, <<"2", "1", "4", "7", "4", "8", "3", "h">>}

HourTexts == {ToDigits(n) \o <<"h">> : n \in 0..MaxHours} \cup OtherHourTexts

InitHours == Init

ParseHoursOp == \E hours_str \in HourTexts :
    /\ Idle
    /\ Apply("parse_hours", hours_str, Ret(World({}), parse_hours(hours_str)))

\* the number has been used
UseHoursOp ==
    /\ last.op = "parse_hours"
    /\ last' = NoRecord
    /\ UNCHANGED <<state, tags, now, ops, inflight>>

NextHours == ParseHoursOp \/ UseHoursOp

SpecHours == InitHours /\ [][NextHours]_vars

\* the decimal digits of a text, and the natural number they write
IsDecimal(text) == text # <<>> /\ \A k \in 1..Len(text) : text[k] \in {"0", "1", "2", "3", "4", "5", "6", "7", "8", "9"}

RECURSIVE Decimal(_)
Decimal(text) ==
    IF text = <<>> THEN 0
    ELSE 10 * Decimal(SubSeq(text, 1, Len(text) - 1))
         + (CHOOSE d \in 0..9 : <<"0", "1", "2", "3", "4", "5", "6", "7", "8", "9">>[d + 1] = text[Len(text)])

\* the texts the statement names as failing
FailingHourTexts ==
    {None, <<>>, <<" ">>, <<"2">>, <<"2", "4">>, <<"a", "h">>, <<"h">>, <<"h", "h">>, <<"2", ".", "5", "h">>, <<"2", "h", "h">>, <<"h", "2">>, <<"2", " ", "h", " ", "3", "h">>, <<"i", "n", "v", "a", "l", "i", "d", "-", "h", "o", "u", "r", "s">>,
     <<"-", "1", "h">>, <<"-", "2", "h">>, <<"-", "0", "h">>, <<"0", "0", "h">>, <<"+", "0", "h">>, <<"0", "h">>, <<"1", "e", "2", "h">>, <<"0", "x", "1", "0", "h">>, <<"2", "m">>, <<"2", "h", "o", "u", "r", "s">>}

(***************************************************************************)
(* C26: parse_hours gives for a text of decimal digits followed by h that  *)
(* writes a number n >= 1 exactly n (2h gives 2, 24h gives 24, and so does *)
(* a number as large as 2147483h); it gives None for None, an empty or     *)
(* blank text, a text that does not end in h, a prefix that is no integer  *)
(* and a number below 1; whatever the text it gives None or a number of at *)
(* least 1.                                                                *)
(***************************************************************************)
C26_ParseHours ==
    last.op = "parse_hours" =>
        LET text == last.arg
            digits == SubSeq(text, 1, Len(text) - 1)
        IN  /\ last.ret = NoHours \/ last.ret >= 1
            /\ (text # None /\ text # <<>> /\ text[Len(text)] = "h" /\ IsDecimal(digits) /\ Decimal(digits) >= 1)
                  => last.ret = Decimal(digits)
            /\ text = <<"2", "h">> => last.ret = 2
            /\ text = <<"2", "4", "h">> => last.ret = 24
            /\ text \in FailingHourTexts => last.ret = NoHours
            /\ (text # None /\ ~endswith(lower(strip(text)), <<"h">>)) => last.ret = NoHours

\* a number of three digits parsed
C26_Witness ==
    /\ last.op = "parse_hours"
    /\ last.arg = <<"1", "2", "0", "h">>
    /\ last.ret = 120

(***************************************************************************)
(* SpecTime: parse_time applied to the times of the 12-hour clock, with    *)
(* and without minutes, written in four ways, to the times of the 24-hour  *)
(* clock, written with one or two digits for the hour, and to texts that   *)
(* are no time. The argument keeps what the text was written from.         *)
(***************************************************************************)
TimeMinutes == {0, 5, 30, 59}

\* a time of the 12-hour clock as it is typed: 5am, 5:30am, 05:30 AM, 5:30 pm
TwelveHourText(hour, minute, half, form) ==
    CASE form = 1 -> ToDigits(hour) \o half
      [] form = 2 -> ToDigits(hour) \o <<":">> \o TwoDigits(minute) \o half
      [] form = 3 -> TwoDigits(hour) \o <<":">> \o TwoDigits(minute) \o <<" ">> \o upper(half)
      [] form = 4 -> <<" ">> \o ToDigits(hour) \o <<":">> \o TwoDigits(minute) \o <<" ">> \o half \o <<" ">>

TwelveHourArgs ==
    {[text |-> TwelveHourText(hour, minute, half, form), hour |-> hour, minute |-> minute, half |-> half] :
        hour \in 1..12, minute \in TimeMinutes, half \in {<<"a", "m">>, <<"p", "m">>}, form \in 2..4}
    \cup {[text |-> TwelveHourText(hour, 0, half, 1), hour |-> hour, minute |-> 0, half |-> half] :
            hour \in 1..12, half \in {<<"a", "m">>, <<"p", "m">>}}

TwentyFourHourArgs ==
    {[text |-> (IF wide THEN TwoDigits(hour) ELSE ToDigits(hour)) \o <<":">> \o TwoDigits(minute),
      hour |-> hour, minute |-> minute, half |-> <<>>] :
        hour \in 0..23, minute \in TimeMinutes, wide \in BOOLEAN}

\* the texts the statement names as failing
FailingTimeTexts ==
    {None, <<>>, <<" ">>, <<" ", " ", " ">>, <<"2", "5", ":", "0", "0">>, <<"2", "4", ":", "0", "0">>, <<"9", "9", ":", "0", "0">>, <<"9", ":", "6", "0", "a", "m">>, <<"9", ":", "6", "0">>, <<"1", "7", ":", "6", "0">>, <<"1", "2", ":", "9", "9", "p", "m">>,
     <<"1", "3", ":", "0", "0", "a", "m">>, <<"1", "3", ":", "0", "0", "p", "m">>, <<"2", "3", ":", "3", "0", "p", "m">>, <<"1", "7", ":", "0", "0", "a", "m">>, <<"1", "3", "a", "m">>, <<"2", "4", "a", "m">>, <<"b", "o", "g", "u", "s">>, <<"a", "m">>, <<"p", "m">>, <<"9", ":", "x", "x", "a", "m">>}

FailingTimeArgs == {[text |-> t, hour |-> 0, minute |-> 0, half |-> None] : t \in FailingTimeTexts}

InitTime == Init

ParseTimeOp == \E arg \in TwelveHourArgs \cup TwentyFourHourArgs \cup FailingTimeArgs :
    /\ Idle
    /\ Apply("parse_time", arg, Ret(World({}), parse_time(arg.text)))

\* the time has been used
UseTimeOp ==
    /\ last.op = "parse_time"
    /\ last' = NoRecord
    /\ UNCHANGED <<state, tags, now, ops, inflight>>

NextTime == ParseTimeOp \/ UseTimeOp

SpecTime == InitTime /\ [][NextTime]_vars

\* a time of day, in the seconds the model counts it in
At(hour, minute) == hour * 3600 + minute * 60

InitStakeGate ==
    /\ \E ctl \in {None, <<"o", "f", "f">>, <<"f", "a", "l", "s", "e">>}, v \in {None, <<"a">>, <<"a", ",", "b">>} :
          tags = [id \in Ids |-> IF id = ID1 THEN FleetTags(NameDb, <<"t", "r", "u", "e">>)
                                 ELSE IF id = ID2 THEN [FleetTags(NameWeb, ctl) EXCEPT !["Stakeholders"] = v]
                                 ELSE FleetTags(NameOld, <<"t", "r", "u", "e">>)]
    /\ state = [id \in Ids |-> IF id = ID3 THEN "terminated" ELSE "running"]
    /\ now = 0
    /\ ops = 0
    /\ last = NoRecord
    /\ inflight = <<>>

AddDirect == \E id \in {ID1, ID2}, u \in {<<"a">>, <<"b">>}, F \in OneFault(2) :
    ApplyCounted("add_stakeholder", [instance_id |-> id, user_id |-> u], add_stakeholder(World(F), id, u))

RemoveDirect == \E id \in {ID1, ID2}, u \in {<<"a">>, <<"b">>}, F \in OneFault(2) :
    ApplyCounted("remove_stakeholder", [instance_id |-> id, user_id |-> u], remove_stakeholder(World(F), id, u))

NextStakeGate == AddDirect \/ RemoveDirect

SpecStakeGate == InitStakeGate /\ [][NextStakeGate]_vars

\* the gate of an instance of the store
GateOf(id) == can_control_instance([found |-> TRUE, InstanceId |-> id, State |-> state[id], Tags |-> tags[id]])

(***************************************************************************)
(* C28: add_stakeholder and remove_stakeholder called for an instance      *)
(* whose gate is false make no create_tags and no delete_tags call, and    *)
(* report failure.                                                         *)
(***************************************************************************)
C28_RegistryRequiresGate ==
    (/\ last.op \in {"add_stakeholder", "remove_stakeholder"}
     /\ ~GateOf(last.arg.instance_id)) =>
        /\ Mutations(last.calls) = {}
        /\ last.ret[1] = FALSE

(***************************************************************************)
(* SpecPowerRace: one power command on ID1 taken in the two steps its code *)
(* takes (handlers.py 158-254): the handler resolves the instance, passes  *)
(* the gate and reads the state; then it calls start_instance,             *)
(* stop_instance or restart_instance, which check the gate and read the    *)
(* state again (aws_client.py 112-143), and chooses its reply. Between the *)
(* two steps the lifecycle state and the EC2ControlsEnabled tag of ID1     *)
(* may change at the provider. inflight holds the locals of the handler    *)
(* between its two steps.                                                  *)
(***************************************************************************)
InitPowerRace ==
    /\ tags = [id \in Ids |-> FleetTags(NameDb, <<"t", "r", "u", "e">>)]
    /\ \E s \in Lifecycle : state = [id \in Ids |-> IF id = ID1 THEN s ELSE "running"]
    /\ now = 0
    /\ ops = 0
    /\ last = NoRecord
    /\ inflight = <<>>

RacePowerTexts == {ID1 \o <<" ", "o", "n">>, ID1 \o <<" ", "o", "f", "f">>, ID1 \o <<" ", "r", "e", "s", "t", "a", "r", "t">>}

\* the handler up to its own read of the state
PowerReadStep == \E text \in RacePowerTexts :
    LET read == handle_ec2_power_before_operation(World({}), split_blank(strip(text)))
    IN  /\ inflight = <<>>
        /\ state' = read.w.state
        /\ tags' = read.w.tags
        /\ now' = read.w.now
        /\ IF read.ret.done
           THEN /\ last' = Record("handle_ec2_power_before_operation", Request(text, <<"a">>),
                                  Ret(read.w, read.ret.reply))
                /\ inflight' = inflight
           ELSE /\ last' = NoRecord
                /\ inflight' = <<[text |-> text, locals |-> read.ret]>>
        /\ UNCHANGED ops

\* the lifecycle state of ID1 moves at the provider: a transition runs to its end, or
\* somebody else starts or stops the instance
LifecycleChange ==
    /\ state' = [state EXCEPT ![ID1] = CASE @ = "pending" -> "running"
                                         [] @ = "stopping" -> "stopped"
                                         [] @ = "stopped" -> "pending"
                                         [] OTHER -> "stopping"]
    /\ last' = NoRecord
    /\ UNCHANGED <<tags, now, ops, inflight>>

\* somebody else sets or removes the EC2ControlsEnabled tag of ID1
GateTagChange == \E ctl \in {None, <<"t", "r", "u", "e">>, <<"f", "a", "l", "s", "e">>} :
    /\ ctl # tags[ID1]["EC2ControlsEnabled"]
    /\ tags' = [tags EXCEPT ![ID1]["EC2ControlsEnabled"] = ctl]
    /\ last' = NoRecord
    /\ UNCHANGED <<state, now, ops, inflight>>

\* the handler from the call of the power function to its reply
PowerOperateStep ==
    /\ inflight # <<>>
    /\ LET locals == inflight[1].locals
           r == handle_ec2_power_operation(World({}), locals.instance_id, locals.power_state,
                                           locals.current_state)
       IN  /\ state' = r.w.state
           /\ tags' = r.w.tags
           /\ now' = r.w.now
           /\ last' = Record("handle_ec2_power", Request(inflight[1].text, <<"a">>), r)
    /\ inflight' = <<>>
    /\ UNCHANGED ops

NextPowerRace == PowerReadStep \/ LifecycleChange \/ GateTagChange \/ PowerOperateStep

SpecPowerRace == InitPowerRace /\ [][NextPowerRace]_vars

\* the gate result the power function saw
OperationGate == last.calls[Min(GateNotes(last.calls))].ok

\* the state the power function read after its gate
OperationState == last.calls[Min(GateNotes(last.calls)) + 1].val

\* C29: under changes of the lifecycle state or of the gate tag between the handler's own
\* read and the reads of the power function, the reply of handle_ec2_power names the
\* condition on which the power function refused: the gate when its gate check failed, the
\* state it read when that state does not allow the operation; and the reply is the success
\* reply only when the power function issued the provider call.
C29_RefusalNamesObservedCondition ==
    last.op = "handle_ec2_power" =>
        LET op == normalize_command(split_blank(last.arg.text)[2], ACTION_ALIASES_POWER)
        IN  /\ ~OperationGate => last.ret.text = NotControllable
            /\ (OperationGate /\ OperationState # C3_Legal(op)) =>
                   last.ret.text = C3_Reason(op, OperationState)
            /\ last.ret.text = "Set {display_name} ({instance_id}) to {power_state}" =>
                   Mutations(last.calls) # {}

\* the half of C29 about the success reply alone
SuccessOnlyAfterProviderCall ==
    (last.op = "handle_ec2_power" /\ last.ret.text = "Set {display_name} ({instance_id}) to {power_state}")
        => \E k \in Mutations(last.calls) : last.calls[k].ok

\* a power command whose state changed between the two reads and that was refused
PowerRaceRefused ==
    /\ last.op = "handle_ec2_power"
    /\ OperationGate
    /\ OperationState # last.ret.state
    /\ Mutations(last.calls) = {}

(***************************************************************************)
(* SpecRoundTrip: add_stakeholder and is_user_stakeholder called one after *)
(* the other on instance ID1 with the caller strings handle_ec2_stakeholder*)
(* can pass (handlers.py 727-731 takes user_id from the form as it is, ''  *)
(* when it is missing). No provider call fails.                            *)
(***************************************************************************)
InitRoundTrip == \E v \in {None, <<"a">>, <<"b", ",", "j">>, Nine} : StakeFleet(v)

RoundTripAdd == \E u \in Callers :
    ApplyCounted("add_stakeholder", u, add_stakeholder(World({}), ID1, u))

RoundTripCheck == \E u \in Callers :
    ApplyCounted("is_user_stakeholder", u, is_user_stakeholder(World({}), ID1, u))

NextRoundTrip == RoundTripAdd \/ RoundTripCheck

SpecRoundTrip == InitRoundTrip /\ [][NextRoundTrip]_vars

\* the call that has just returned added the caller
Added(l) == l.op = "add_stakeholder" /\ l.ret = <<TRUE, "added">>

\* C30: for every caller string the handler can pass (the empty string, a string with a
\* comma, a string with a blank at its end included): when add_stakeholder returns added,
\* the stored tag parses to the list that was written, the list read before with the caller
\* at its end, of at most 10 members; and the next call for the same caller finds it:
\* is_user_stakeholder is true, add_stakeholder returns already_stakeholder and leaves the
\* tag as it is.
C30_RoundTripStep ==
    /\ Added(last') =>
          /\ current_stakeholders(tags'[ID1]["Stakeholders"]) =
                 current_stakeholders(tags[ID1]["Stakeholders"]) \o <<last'.arg>>
          /\ Len(current_stakeholders(tags'[ID1]["Stakeholders"])) <= MaxStakeholders
    /\ (Added(last) /\ last'.arg = last.arg /\ ops' = ops + 1) =>
          /\ last'.op = "is_user_stakeholder" => last'.ret = TRUE
          /\ last'.op = "add_stakeholder" =>
                 (last'.ret = <<TRUE, "already_stakeholder">> /\ tags' = tags)

C30_StakeholderRoundTrip == [][C30_RoundTripStep]_vars

\* the same for callers that are one word without a comma
C30_WellFormedStep ==
    (IF ops' = ops + 1 /\ Added(last') THEN last'.arg ELSE last.arg) \in {<<"a">>, <<"b">>, <<"j">>, <<"k">>}
        => C30_RoundTripStep

WellFormedRoundTrip == [][C30_WellFormedStep]_vars

(***************************************************************************)
(* SpecInvalidState: the power functions and the power command on ID1,     *)
(* whose lifecycle state is any of the six; the instance may be terminated *)
(* by somebody else (running or stopped -> shutting-down -> terminated).   *)
(* A provider call of an operation may fail.                               *)
(***************************************************************************)
InvalidStates == AllLifecycle \ Lifecycle

InitInvalidState ==
    /\ tags = [id \in Ids |-> FleetTags(NameDb, <<"t", "r", "u", "e">>)]
    /\ \E s \in AllLifecycle : state = [id \in Ids |-> IF id = ID1 THEN s ELSE "running"]
    /\ now = 0
    /\ ops = 0
    /\ last = NoRecord
    /\ inflight = <<>>

StartDirect == \E F \in OneFault(3) :
    Apply("start_instance", ID1, start_instance(World(F), ID1))

StopDirect == \E F \in OneFault(3) :
    Apply("stop_instance", ID1, stop_instance(World(F), ID1))

RestartDirect == \E F \in OneFault(3) :
    Apply("restart_instance", ID1, restart_instance(World(F), ID1))

PowerOnAnyState == \E text \in RacePowerTexts, F \in OneFault(7) :
    Apply("handle_ec2_power", Request(text, <<"a">>), handle_ec2_power(World(F), text, <<"a">>))

\* the instance is terminated at the provider
Terminate ==
    /\ state[ID1] \in {"running", "stopped", "shutting-down"}
    /\ state' = [state EXCEPT ![ID1] = IF @ = "shutting-down" THEN "terminated" ELSE "shutting-down"]
    /\ last' = NoRecord
    /\ UNCHANGED <<tags, now, ops, inflight>>

NextInvalidState == StartDirect \/ StopDirect \/ RestartDirect \/ PowerOnAnyState \/ Terminate \/ Progress

SpecInvalidState == InitInvalidState /\ [][NextInvalidState]_vars

InvalidStateReply(power_state) ==
    IF power_state = <<"o", "n">>
    THEN "Cannot start {display_name} ({instance_id}) - instance is in an invalid state ({current_state})"
    ELSE IF power_state = <<"o", "f", "f">>
    THEN "Cannot stop {display_name} ({instance_id}) - instance is in an invalid state ({current_state})"
    ELSE "Cannot restart {display_name} ({instance_id}) - instance is in an invalid state ({current_state})"

\* C32: while the instance is in a lifecycle state outside pending, running, stopping and
\* stopped, start_instance, stop_instance and restart_instance return False and issue no
\* start, stop or reboot call; and handle_ec2_power, having read such a state, answers with
\* the "instance is in an invalid state (<state>)" refusal of the operation asked for,
\* showing the state it read, never with success or the try-again failure.
C32_InvalidStateRefused ==
    /\ (last.op \in {"start_instance", "stop_instance", "restart_instance"}
            /\ state[ID1] \in InvalidStates)
          => (last.ret = FALSE /\ Mutations(last.calls) = {})
    /\ (last.op = "handle_ec2_power" /\ last.ret.state \in InvalidStates)
          => /\ last.ret.text =
                    InvalidStateReply(normalize_command(split_blank(last.arg.text)[2], ACTION_ALIASES_POWER))
             /\ last.ret.state = state[ID1]
             /\ Mutations(last.calls) = {}

\* a start command on a terminated instance was refused after both state reads
C32_Witness ==
    /\ last.op = "handle_ec2_power"
    /\ last.ret.state = "terminated"
    /\ last.arg.text = ID1 \o <<" ", "o", "n">>
    /\ ~last.raised
    /\ Len(last.calls) >= 5

(***************************************************************************)
(* SpecOrder: the four commands given a first token that names ID1 (by ID  *)
(* or by name) or names nothing, followed by no, one, two or three further *)
(* tokens, well-formed or not. A provider call of a command may fail.      *)
(***************************************************************************)
OrderFirst == {ID1, NameDb, <<"n", "o", "s", "u", "c", "h">>}

OrderRest == {<<>>, <<<<"o", "n">>>>, <<<<"c", "l", "e", "a", "r">>>>, <<<<"c", "a", "n", "c", "e", "l">>>>, <<<<"2", "h">>>>, <<<<"c", "l", "a", "i", "m">>>>, <<<<"c", "h", "e", "c", "k">>>>,
              <<<<"b", "o", "g", "u", "s">>>>, <<<<"o", "n">>, <<"n", "o", "w">>>>, <<<<"9", "a", "m">>, <<"t", "o">>>>,
              <<<<"9", "a", "m">>, <<"t", "o">>, <<"5", "p", "m">>>>, <<<<"9", "a", "m">>, <<"a", "t">>, <<"5", "p", "m">>>>, <<<<"x", "x">>, <<"t", "o">>, <<"5", "p", "m">>>>}

OrderTexts == {Glue(<<first>> \o rest, <<" ">>) : first \in OrderFirst, rest \in OrderRest}

InitOrder == Init

PowerOrder == \E text \in OrderTexts, F \in OneFault(3) :
    /\ Idle
    /\ Apply("handle_ec2_power", Request(text, <<"a">>), handle_ec2_power(World(F), text, <<"a">>))

ScheduleOrder == \E text \in OrderTexts, F \in OneFault(3) :
    /\ Idle
    /\ Apply("handle_ec2_schedule", Request(text, <<"a">>), handle_ec2_schedule(World(F), text, <<"a">>))

DisableOrder == \E text \in OrderTexts, F \in OneFault(3) :
    /\ Idle
    /\ Apply("handle_ec2_disable_schedule", Request(text, <<"a">>),
             handle_ec2_disable_schedule(World(F), text, <<"a">>))

StakeholderOrder == \E text \in OrderTexts, F \in OneFault(3) :
    /\ Idle
    /\ Apply("handle_ec2_stakeholder", Request(text, <<"a">>), handle_ec2_stakeholder(World(F), text, <<"a">>))

NextOrder == PowerOrder \/ ScheduleOrder \/ DisableOrder \/ StakeholderOrder \/ Respond

SpecOrder == InitOrder /\ [][NextOrder]_vars

\* the first token of the command names no instance
Unresolvable(text) == resolve_instance_identifier(World({}), split_blank(strip(text))[1]).ret = None

\* the stakeholder command has an action word that is none of the three
InvalidAction(text) ==
    LET parts == split_blank(strip(text))
    IN  /\ Len(parts) = 2
        /\ normalize_command(lower(parts[2]), ACTION_ALIASES_STAKEHOLDER) \notin {<<"c", "l", "a", "i", "m">>, <<"r", "e", "m", "o", "v", "e">>, <<"c", "h", "e", "c", "k">>}

\* C33: a stakeholder command whose action word is not claim, remove or check after alias
\* normalisation is answered "Action must be ..." with no provider call made; a power,
\* schedule or disable command of a token count its handler accepts, whose first token
\* names no instance, is answered "not found" whatever its other tokens are.
C33_ValidationOrder ==
    /\ (last.op = "handle_ec2_stakeholder" /\ InvalidAction(last.arg.text)) =>
          (last.ret.text = "Action must be 'claim', 'remove', or 'check'" /\ last.calls = <<>>)
    /\ (/\ last.op \in {"handle_ec2_power", "handle_ec2_schedule", "handle_ec2_disable_schedule"}
        /\ ~NoShape(last.op, TokenCount(last.arg.text))
        /\ Unresolvable(last.arg.text)) =>
          last.ret.text = NotFound

\* C33 as stated: the same with "not found" for every token count
C33_NotFoundWhateverTokens ==
    /\ (last.op = "handle_ec2_stakeholder" /\ InvalidAction(last.arg.text)) =>
          (last.ret.text = "Action must be 'claim', 'remove', or 'check'" /\ last.calls = <<>>)
    /\ (/\ last.op \in {"handle_ec2_power", "handle_ec2_schedule", "handle_ec2_disable_schedule"}
        /\ TokenCount(last.arg.text) >= 1
        /\ Unresolvable(last.arg.text)) =>
          last.ret.text = NotFound

\* a power command with an action word that is none of the three, for a name that names
\* no instance, was answered not found after its lookup
C33_Witness ==
    /\ last.op = "handle_ec2_power"
    /\ last.arg.text = <<"n", "o", "s", "u", "c", "h", " ", "b", "o", "g", "u", "s">>
    /\ last.ret.text = NotFound
    /\ last.calls # <<>>

(***************************************************************************)
(* C35: when the EC2ControlsEnabled tag is present, the gate is false only *)
(* if its value is empty or equals false, 0, no, disabled or off in any    *)
(* letter case; for every other present value, a value with a blank around *)
(* a blocklisted word included, it is true.                                *)
(***************************************************************************)
C35_PresentKeyGate ==
    (last.op = "can_control_instance_by_id" /\ last.calls[1].ok
        /\ tags[last.arg]["EC2ControlsEnabled"] # None) =>
        LET v == tags[last.arg]["EC2ControlsEnabled"]
        IN  last.ret = FALSE <=> (v = <<>> \/ \E f \in FalsyValues : SameIgnoringCase(v, f))

\* C35 as stated: with the key present the gate is false only for the five spellings,
\* in any letter case
C35_FalseOnlyForBlocklist ==
    (last.op = "can_control_instance_by_id" /\ last.calls[1].ok
        /\ tags[last.arg]["EC2ControlsEnabled"] # None) =>
        LET v == tags[last.arg]["EC2ControlsEnabled"]
        IN  last.ret = FALSE <=> \E f \in FalsyValues : SameIgnoringCase(v, f)

\* the gate was asked for an instance whose tag is a blocklisted word after a blank, and was true
C35_Witness ==
    /\ last.op = "can_control_instance_by_id"
    /\ last.calls[1].ok
    /\ tags[last.arg]["EC2ControlsEnabled"] = <<" ", "f", "a", "l", "s", "e">>
    /\ last.ret = TRUE

(***************************************************************************)
(* SpecDisplay: format_disable_schedule_display and the comparison of      *)
(* is_schedule_disabled applied at an instant to a marker, or to none. The *)
(* instants are seconds; the marker lies before, at and after the instant, *)
(* by the spans at which the text changes.                                 *)
(***************************************************************************)
DisplayNows == {0, 30, 3600, 5000}

DisplaySpans == {-3600, -60, -1, 0, 1, 59, 60, 61, 119, 3599, 3600, 3601, 3659, 3660, 3661, 7199, 7200,
                 7260, 86399, 86400, 90061}

DisplayArgs ==
    {[now |-> n, disable_datetime |-> NoInstant] : n \in DisplayNows}
    \cup {a \in [now : DisplayNows, disable_datetime : 0..95061] :
              a.disable_datetime - a.now \in DisplaySpans}

InitDisplay == Init

DisplayOp == \E a \in DisplayArgs :
    /\ Idle
    /\ Apply("format_disable_schedule_display", a,
             Ret(World({}), format_disable_schedule_display_at(a.now, a.disable_datetime)))

DisabledAtOp == \E a \in DisplayArgs :
    /\ Idle
    /\ Apply("is_schedule_disabled", a,
             Ret(World({}), a.disable_datetime # NoInstant /\ schedule_disabled_at(a.now, a.disable_datetime)))

\* the text or the answer is shown
ShowOp ==
    /\ ~Idle
    /\ last' = NoRecord
    /\ UNCHANGED <<state, tags, now, ops, inflight>>

NextDisplay == DisplayOp \/ DisabledAtOp \/ ShowOp

SpecDisplay == InitDisplay /\ [][NextDisplay]_vars

\* the words of a text after "Disabled for ", e.g. <<"2h", "15m">>
ShownParts(text) == split(SubSeq(text, Len(<<"D", "i", "s", "a", "b", "l", "e", "d", " ", "f", "o", "r", " ">>) + 1, Len(text)), " ")

\* the number shown with the given unit letter, -1 when none is shown
Shown(text, unit) ==
    LET at == {k \in 1..Len(ShownParts(text)) : endswith(ShownParts(text)[k], <<unit>>)}
        word == ShownParts(text)[CHOOSE k \in at : TRUE]
    IN  IF at = {} THEN -1 ELSE ToNumber(SubSeq(word, 1, Len(word) - 1))

\* C37: at every instant, the instant of expiry included, the display is a "Disabled for"
\* text exactly when there is a marker and is_schedule_disabled's comparison now < marker is
\* true, "No disable schedule set (expired)" exactly when there is a marker and now >= marker,
\* and "No disable schedule set" exactly when there is none; for an active marker the hours
\* shown are floor(remaining / 3600 s), the minutes shown floor((remaining mod 3600 s) / 60 s)
\* and within 0..59, a number that is not shown is 0, and under one hour only minutes are shown.
C37_DisplayAgrees ==
    last.op = "format_disable_schedule_display" =>
        LET n == last.arg.now
            d == last.arg.disable_datetime
            text == last.ret
            active == d # NoInstant /\ schedule_disabled_at(n, d)
            remaining == d - n
            hours == remaining \div 3600
            minutes == (remaining % 3600) \div 60
        IN  /\ startswith(text, <<"D", "i", "s", "a", "b", "l", "e", "d", " ", "f", "o", "r", " ">>) <=> active
            /\ text = <<"N", "o", " ", "d", "i", "s", "a", "b", "l", "e", " ", "s", "c", "h", "e", "d", "u", "l", "e", " ", "s", "e", "t", " ", "(", "e", "x", "p", "i", "r", "e", "d", ")">> <=> (d # NoInstant /\ n >= d)
            /\ text = <<"N", "o", " ", "d", "i", "s", "a", "b", "l", "e", " ", "s", "c", "h", "e", "d", "u", "l", "e", " ", "s", "e", "t">> <=> d = NoInstant
            /\ active =>
                  /\ Len(ShownParts(text)) \in {1, 2}
                  /\ Shown(text, "h") \in {-1, hours}
                  /\ Shown(text, "m") \in {-1, minutes}
                  /\ Shown(text, "h") = -1 => hours = 0
                  /\ Shown(text, "m") = -1 => (minutes = 0 /\ hours > 0)
                  /\ Shown(text, "m") \in -1..59
                  /\ remaining < 3600 => (Shown(text, "h") = -1 /\ Shown(text, "m") = minutes)

\* one second before the marker the display is still "Disabled for 0m"; and a marker of
\* 25 h 1 min 1 s ahead is shown with its hours and minutes
C37_Witness ==
    /\ last.op = "format_disable_schedule_display"
    /\ \/ (last.arg.disable_datetime - last.arg.now = 1 /\ last.ret = <<"D", "i", "s", "a", "b", "l", "e", "d", " ", "f", "o", "r", " ", "0", "m">>)
       \/ (last.arg.disable_datetime - last.arg.now = 90061 /\ last.ret = <<"D", "i", "s", "a", "b", "l", "e", "d", " ", "f", "o", "r", " ", "2", "5", "h", " ", "1", "m">>)

(***************************************************************************)
(* SpecSched: the schedule of instance ID1 read back, by get_schedule and  *)
(* by the status form of the schedule command, from tags as they may be    *)
(* found: set by this service, set by hand, one of them missing.           *)
(***************************************************************************)
TagTimes == {None, <<"0", "9", ":", "0", "0">>, <<"1", "7", ":", "0", "0">>, <<"0", "0", ":", "0", "0">>, <<"b", "o", "g", "u", "s">>, <<"2", "5", ":", "0", "0">>}

InitSched ==
    /\ \E on_time \in TagTimes, off_time \in TagTimes :
          tags = [id \in Ids |-> IF id = ID1
                                 THEN [FleetTags(NameDb, <<"t", "r", "u", "e">>) EXCEPT !["PowerScheduleOnTime"] = on_time,
                                                                        !["PowerScheduleOffTime"] = off_time]
                                 ELSE FleetTags(NameWeb, <<"t", "r", "u", "e">>)]
    /\ state = [id \in Ids |-> "running"]
    /\ now = 0
    /\ ops = 0
    /\ last = NoRecord
    /\ inflight = <<>>

GetScheduleOp == \E F \in FaultSets(1) :
    Apply("get_schedule", ID1, get_schedule(World(F), ID1))

ScheduleStatusCmd == \E F \in FaultSets(3) :
    Apply("handle_ec2_schedule", Request(ID1, <<"a">>), handle_ec2_schedule(World(F), ID1, <<"a">>))

NextSched == GetScheduleOp \/ ScheduleStatusCmd

SpecSched == InitSched /\ [][NextSched]_vars

\* the tag value is one that parse_time reads
Reparses(v) == v # None /\ parse_time(v) # NoTime

(***************************************************************************)
(* C14: when get_schedule has read the tags, and either schedule tag is    *)
(* missing or is not a time parse_time reads, get_schedule returns None;   *)
(* what it returns otherwise holds both a start time and a stop time.      *)
(***************************************************************************)
C14_NoPartialSchedule ==
    (last.op = "get_schedule" /\ \A k \in 1..Len(last.calls) : last.calls[k].ok) =>
        /\ (~Reparses(tags[ID1]["PowerScheduleOnTime"]) \/ ~Reparses(tags[ID1]["PowerScheduleOffTime"]))
               => last.ret.none
        /\ ~last.ret.none => (last.ret.start_time # None /\ last.ret.stop_time # None)

(***************************************************************************)
(* SpecRace: three stakeholder commands on instance ID1 that run at the    *)
(* same time. A command is two provider calls, the read of the tags        *)
(* (get_stakeholders_tag) and the write (create_tags or delete_tags), and  *)
(* the calls of different commands reach the provider in any order; no     *)
(* lock is taken between them. Each call may fail.                         *)
(***************************************************************************)
Procs == {1, 2, 3}

RaceCallers == {<<"a">>, <<"b">>, <<"c">>}

NotStarted == [op |-> "-", user_id |-> None, pc |-> "idle", read |-> None, ret |-> <<FALSE, "-">>,
               at |-> 0, wrote |-> FALSE]

InitRace ==
    /\ \E v \in {None, <<"a">>} :
          tags = [id \in Ids |-> [FleetTags(NameDb, <<"t", "r", "u", "e">>) EXCEPT !["Stakeholders"] = IF id = ID1 THEN v ELSE None]]
    /\ state = [id \in Ids |-> "running"]
    /\ now = 0
    /\ ops = 0
    /\ last = NoRecord
    /\ inflight = [p \in Procs |-> NotStarted]

\* the command of p starts and its read of the tag returns
ReadStep == \E p \in Procs, op \in {"add_stakeholder", "remove_stakeholder"}, u \in RaceCallers,
               F \in OneFault(1) :
    /\ inflight[p].pc = "idle"
    /\ LET r == get_stakeholders_tag(World(F), ID1)
       IN  inflight' = [inflight EXCEPT ![p] = [NotStarted EXCEPT !.op = op, !.user_id = u,
                                                                 !.pc = "read", !.read = r.ret]]
    /\ UNCHANGED <<state, tags, now, ops, last>>

\* the rest of the command of p: what it decides from the list it read, and its write
WriteStep == \E p \in Procs, F \in OneFault(1) :
    /\ inflight[p].pc = "read"
    /\ LET c == inflight[p]
           r == IF c.op = "add_stakeholder"
                THEN add_stakeholder_after_read(World(F), ID1, c.user_id, c.read)
                ELSE remove_stakeholder_after_read(World(F), ID1, c.user_id, c.read)
       IN  /\ state' = r.w.state
           /\ tags' = r.w.tags
           /\ now' = r.w.now
           /\ ops' = ops + 1
           /\ inflight' = [inflight EXCEPT ![p] =
                  [c EXCEPT !.pc = "done", !.ret = r.ret, !.at = ops + 1,
                            !.wrote = \E k \in 1..Len(r.w.calls) :
                                         r.w.calls[k].op \in MutatingOps /\ r.w.calls[k].ok]]
    /\ UNCHANGED last

NextRace == ReadStep \/ WriteStep

SpecRace == InitRace /\ [][NextRace]_vars

\* the commands whose write has reached the provider
Writers == {p \in DOMAIN inflight : inflight[p].pc = "done" /\ inflight[p].wrote}

\* the command whose write reached the provider last
LastWriter == CHOOSE p \in Writers : \A q \in Writers : inflight[q].at <= inflight[p].at

\* the tag value command c computes from the list it read
Computed(c) ==
    IF c.op = "add_stakeholder"
    THEN join(current_stakeholders(c.read) \o <<c.user_id>>, ",")
    ELSE LET rest == Without(current_stakeholders(c.read), c.user_id)
         IN  IF rest = <<>> THEN None ELSE join(rest, ",")

(***************************************************************************)
(* C11: stakeholder commands that run at the same time are a read and a    *)
(* write with nothing between them held: once a write has reached the      *)
(* provider, the Stakeholders tag is the value computed, from the list it  *)
(* had read, by the command that wrote last, whatever the other commands   *)
(* wrote in between.                                                       *)
(***************************************************************************)
C11_LastWriterWins ==
    Writers # {} => tags[ID1]["Stakeholders"] = Computed(inflight[LastWriter])

\* all commands have ended; one was answered added and its caller is not in the
\* list, one was answered with a removal and its caller is in the list
C11_Witness ==
    /\ inflight # <<>>
    /\ \A p \in DOMAIN inflight : inflight[p].pc = "done"
    /\ \E p \in DOMAIN inflight :
          /\ inflight[p].ret = <<TRUE, "added">>
          /\ ~In(inflight[p].user_id, Stored)
    /\ \E p \in DOMAIN inflight :
          /\ inflight[p].ret \in {<<TRUE, "removed">>, <<TRUE, "removed_and_deleted_tag">>}
          /\ In(inflight[p].user_id, Stored)

(***************************************************************************)
(* SpecRaceBound: the commands of SpecRace, each process with a caller of  *)
(* its own, one of them a member of the longer lists; ID1 starts with no   *)
(* tag or with a list of one, nine or ten members.                         *)
(***************************************************************************)
CallerOf == [p \in Procs |-> IF p = 1 THEN <<"a">> ELSE IF p = 2 THEN <<"x">> ELSE <<"y">>]

InitRaceBound ==
    /\ \E v \in {None, <<"a">>, Nine, Ten} :
          tags = [id \in Ids |-> [FleetTags(NameDb, <<"t", "r", "u", "e">>) EXCEPT !["Stakeholders"] = IF id = ID1 THEN v ELSE None]]
    /\ state = [id \in Ids |-> "running"]
    /\ now = 0
    /\ ops = 0
    /\ last = NoRecord
    /\ inflight = [p \in Procs |-> NotStarted]

\* the command of p starts for the caller of p and its read of the tag returns
OwnReadStep == \E p \in Procs, op \in {"add_stakeholder", "remove_stakeholder"}, F \in OneFault(1) :
    /\ inflight[p].pc = "idle"
    /\ LET r == get_stakeholders_tag(World(F), ID1)
       IN  inflight' = [inflight EXCEPT ![p] = [NotStarted EXCEPT !.op = op, !.user_id = CallerOf[p],
                                                                 !.pc = "read", !.read = r.ret]]
    /\ UNCHANGED <<state, tags, now, ops, last>>

NextRaceBound == OwnReadStep \/ WriteStep

SpecRaceBound == InitRaceBound /\ [][NextRaceBound]_vars

\* C31: whatever the order in which the reads and writes of concurrent add_stakeholder and
\* remove_stakeholder commands of distinct callers reach the provider, the Stakeholders tag
\* of the instance never holds a member twice and never more than 10 members.
C31_RaceKeepsBound ==
    /\ NoDuplicates(Stored)
    /\ Len(Stored) <= 10

\* two commands read the same list of nine, both were answered added, and the list is full
C31_Witness ==
    /\ inflight # <<>>
    /\ \E p, q \in DOMAIN inflight :
          /\ p # q
          /\ inflight[p].ret = <<TRUE, "added">> /\ inflight[q].ret = <<TRUE, "added">>
          /\ inflight[p].read = Nine /\ inflight[q].read = Nine
    /\ Len(Stored) = 10

(***************************************************************************)
(* SpecSetGet: set_schedule and get_schedule called one after the other on *)
(* ID1, which starts with no schedule tag, with both, with one, or with    *)
(* tags set by hand. The times given are times of day with and without     *)
(* seconds, midnight among them, in any order. A provider call may fail.   *)
(* inflight holds the times of the last set_schedule that succeeded.       *)
(***************************************************************************)
SetTimes == {0, 9 * 3600, 9 * 3600 + 10, 23 * 3600 + 59 * 60 + 59}

\* the two schedule tags of ID1
StoredPair(t) == <<t[ID1]["PowerScheduleOnTime"], t[ID1]["PowerScheduleOffTime"]>>

InitSetGet ==
    /\ \E before \in {<<None, None>>, <<<<"0", "9", ":", "0", "0">>, <<"1", "7", ":", "0", "0">>>>, <<<<"1", "7", ":", "0", "0">>, None>>, <<<<"b", "o", "g", "u", "s">>, <<"2", "5", ":", "0", "0">>>>} :
          tags = [id \in Ids |-> IF id = ID1
                                 THEN [FleetTags(NameDb, <<"t", "r", "u", "e">>) EXCEPT !["PowerScheduleOnTime"] = before[1],
                                                                        !["PowerScheduleOffTime"] = before[2]]
                                 ELSE FleetTags(NameWeb, <<"t", "r", "u", "e">>)]
    /\ state = [id \in Ids |-> "running"]
    /\ now = 0
    /\ ops = 0
    /\ last = NoRecord
    /\ inflight = <<>>

SetPairOp == \E start_time \in SetTimes, stop_time \in SetTimes, F \in OneFault(2) :
    LET r == set_schedule(World(F), ID1, start_time, stop_time)
    IN  /\ state' = r.w.state
        /\ tags' = r.w.tags
        /\ now' = r.w.now
        /\ last' = Record("set_schedule",
                          [start_time |-> start_time, stop_time |-> stop_time, before |-> StoredPair(tags)], r)
        /\ inflight' = IF r.ret THEN <<[start_time |-> start_time, stop_time |-> stop_time]>> ELSE inflight
        /\ UNCHANGED ops

ReadPairOp == \E F \in OneFault(1) :
    Apply("get_schedule", ID1, get_schedule(World(F), ID1))

NextSetGet == SetPairOp \/ ReadPairOp

SpecSetGet == InitSetGet /\ [][NextSetGet]_vars

\* C34: a set_schedule that succeeds has issued one mutating provider call, a create_tags,
\* and has left both tags at the HH:MM forms of the two times given, whatever was stored
\* before; a set_schedule that fails has left both tags as they were, so the pair of tags is
\* never one new and one old value; and a get_schedule whose read is answered returns
\* exactly the HH:MM forms of the times of the last set_schedule that succeeded.
C34_SetThenGet ==
    /\ last.op = "set_schedule" =>
          LET new == <<format_time_for_tag(last.arg.start_time), format_time_for_tag(last.arg.stop_time)>>
          IN  /\ StoredPair(tags) \in {new, last.arg.before}
              /\ last.ret = TRUE =>
                    /\ StoredPair(tags) = new
                    /\ Cardinality(Mutations(last.calls)) = 1
                    /\ \A k \in Mutations(last.calls) : last.calls[k].op = "create_tags"
              /\ last.ret = FALSE => StoredPair(tags) = last.arg.before
    /\ (last.op = "get_schedule" /\ inflight # <<>> /\ ~last.raised
            /\ \A k \in 1..Len(last.calls) : last.calls[k].ok) =>
          last.ret = [none |-> FALSE,
                      start_time |-> format_time_for_tag(inflight[1].start_time),
                      stop_time |-> format_time_for_tag(inflight[1].stop_time)]

\* a schedule of 23:59:59 to midnight was set and read back
C34_Witness ==
    /\ last.op = "get_schedule"
    /\ inflight = <<[start_time |-> 23 * 3600 + 59 * 60 + 59, stop_time |-> 0]>>
    /\ last.ret = [none |-> FALSE, start_time |-> <<"2", "3", ":", "5", "9">>, stop_time |-> <<"0", "0", ":", "0", "0">>]

====
